---- MODULE Spec2Model ----
(***************************************************************************)
(* LiFX node server (lifx-poly.py): the Controller's discovery thread,     *)
(* poll sweep and node registry, and the Light / MultiZone / Tile / Group  *)
(* node classes with their local mirror of the remote device.              *)
(*                                                                         *)
(* Several specifications share the module.  SpecCtl runs the Controller:  *)
(* discover() callers, discovery threads and poll() interleave statement   *)
(* by statement, as Python threads do.  The others run one node: each      *)
(* handler (update, long_update, a command) is one action, the outcome of  *)
(* every transport call it makes being an input.  SpecDev has the Bulb's   *)
(* commands, SpecSeq commands back to back, SpecFade the fades, SpecStop   *)
(* FDSTOP, SpecMZ and SpecBatch the strip's cursor and batch commands,     *)
(* SpecTile the tile chain, SpecGroup the group, SpecParam and SpecOn the  *)
(* three device classes under every setting of the policy flags,           *)
(* SpecZoneSeq and SpecEdits the strip's commands back to back, SpecFlag   *)
(* the connectivity flag of the three device classes.  SpecCtlLive is      *)
(* SpecCtl with started threads scheduled fairly, and SpecRace takes       *)
(* Light.dim statement by statement beside the poll's refresh.             *)
(***************************************************************************)
EXTENDS Integers, Sequences, FiniteSets, TLC

\* ------------------------------------------------------------ constants
BR_INCREMENT == 2620
BR_MIN == 1310
BR_MAX == 65535
FADE_INTERVAL == 5000
BRTDIM_INTERVAL == 400

\* Thread objects discover() may create in one behaviour.
MaxThreads == 2

\* ------------------------------------------------------------ transport
\* What a call of the device-control client can end with: "ok", or one of
\* the exception kinds the handlers name in their except clauses.
FailKinds == {"WorkflowException", "OSError", "TypeError"}
Outcomes == {"ok"} \cup FailKinds

\* except Exception
CaughtByException(o) == o # "ok"
\* except lifxlan.WorkflowException
CaughtByWorkflow(o) == o = "WorkflowException"
\* except (lifxlan.WorkflowException, OSError, ValueError)
CaughtByWifiClause(o) == o \in {"WorkflowException", "OSError", "ValueError"}
\* except (lifxlan.WorkflowException, OSError, IOError, TypeError)
CaughtByDiscoveryClause(o) == o \in {"WorkflowException", "OSError", "TypeError"}

\* ------------------------------------------------------------ addresses
\* The Controller's own node, one light on the LAN (its address is its MAC,
\* colons removed, lower case) and the group the light reports.
CtlAddr == "lifxctl"
D1 == "d073d5000001"
G1 == "livingroom"
Addrs == {CtlAddr, D1, G1}

\* Node class registered for an address.
KindOf(a) ==
    CASE a = CtlAddr -> "controller"
      [] a = D1 -> "bulb"
      [] OTHER -> "group"

\* The bulbs section of the manual device list, and what get_lights() may
\* return (the lights that answered the broadcast).
ManualBulbs == <<D1>>
LanLists == {<<>>, <<D1>>}
\* What the manual device list file may hold: it cannot be opened, is not
\* YAML, is empty, has no bulbs section, has bulbs only, has bulbs and a
\* group of them, has bulbs and a group none of whose members is a bulb of
\* the list, has its bulb under a type that is none of multizone, bulb and
\* tile (and no groups section).
FileStates ==
    {"noopen", "noparse", "empty", "nobulbs", "nogroups", "full", "strangers",
     "oddtype"}

\* The members the group of the list names: the light and a name that no
\* entry of the bulbs section has, or such names only.
Nobody == "nobody"
GroupMembers(file) ==
    IF file = "strangers" THEN <<Nobody>> ELSE <<D1, Nobody>>

\* How many devices the group get_devices_by_group(label) returns may
\* hold: the client asks the lights it knows for their group again, and
\* it is the client self.lifxLan names at that moment.
GroupAnswers == {0, 1}

\* LifxLAN client objects told apart.
MaxClients == 2

\* Two tile chains, and the slots TILESV and TILERT name: the command's
\* value v, kept under the key str(v).
T1 == "d073d5000002"
T2 == "d073d5000003"
TileAddrs == {T1, T2}
MaxSlots == 2
Slots == 1 .. MaxSlots
str(v) == CASE v = 0 -> "0" [] v = 1 -> "1" [] v = 2 -> "2" [] v = 3 -> "3"
            [] OTHER -> "n"
SlotKeys == {str(v) : v \in Slots}

Threads == 1 .. MaxThreads
Callers == {"param", "cmd"}

VARIABLES
    \* Controller
    devlist,            \* parameters['devlist'] is set
    devfile,            \* what the file it names holds
    discovery_thread,   \* 0 is None, else a Thread object
    lifxLan,            \* 0 is None, else a LifxLAN client object
    threads,            \* Thread object -> its state and locals
    callpc,             \* discover() caller -> where it stands
    nodes,              \* poly registry: address -> entry; 0 is absent,
                        \* n the n-th node object stored at the address
    order,              \* insertion order of the registry's keys
    bulbs_found,
    gv0,                \* Controller driver GV0
    grpMembers,         \* numMembers of the Group node stored at G1 as
                        \* its __init__ set it; -1 while there is none
    cust_data,          \* cust_data['saved_tile_colors']: address -> key ->
                        \* the colors saved, <<>> where there is no entry
    \* poll()
    pollpc, polltype, pollSnap, polli,
    pollVisited, pollResult, pollSawAlive, pollResized,
    \* Controller policy flags, set from the custom parameters
    change_pon, ignore_second_on,
    \* one device node: the fields of the Light / MultiZone object, the
    \* drivers it reports, and what its last handler did
    dev,
    \* the commands the node ran last, newest first, each with the mirror
    \* it found
    trail,
    \* address -> slot -> the colors the last TILESV that returned read
    \* there, <<>> before the first
    lastSave,
    \* a DIM handler that runs beside the poll: the statement it stands
    \* before, its local new_bri, and what self.color held while it ran
    dimpc

ctlCore == <<devlist, devfile, lifxLan, discovery_thread, threads, callpc, nodes,
             order, bulbs_found, gv0, grpMembers>>
ctlVars == <<ctlCore, cust_data>>
pollVars == <<pollpc, polltype, pollSnap, polli, pollVisited, pollResult,
              pollSawAlive, pollResized>>
devVars == <<change_pon, ignore_second_on, dev, trail, lastSave, dimpc>>
vars == <<ctlVars, pollVars, devVars>>

\* ------------------------------------------------------------ Controller
NewThread == [st |-> "unborn", pc |-> "begin", i |-> 0, devs |-> <<>>,
              made |-> {}, man |-> "none", auto |-> FALSE]

IsAlive(t) == threads[t].st = "alive"
AliveThreads == {t \in Threads : IsAlive(t)}

\* no DIM handler is running
NoDim == [pc |-> "idle", new_bri |-> 0, snap |-> <<>>, fresh |-> {}]

\* Controller.__init__: nothing discovered, nothing running
InitIdle ==
    /\ dimpc = NoDim
    /\ lifxLan = 0
    /\ cust_data = [a \in TileAddrs |-> [k \in SlotKeys |-> <<>>]]
    /\ lastSave = [a \in TileAddrs |-> [v \in Slots |-> <<>>]]
    /\ discovery_thread = 0
    /\ threads = [t \in Threads |-> NewThread]
    /\ callpc = [c \in Callers |-> "idle"]
    /\ nodes = [a \in Addrs |-> IF a = CtlAddr THEN 1 ELSE 0]
    /\ order = <<CtlAddr>>
    /\ bulbs_found = 0
    /\ gv0 = 0
    /\ grpMembers = -1
    /\ pollpc = "idle"
    /\ polltype = "shortPoll"
    /\ pollSnap = <<>>
    /\ polli = 0
    /\ pollVisited = {}
    /\ pollResult = "none"
    /\ pollSawAlive = FALSE
    /\ pollResized = FALSE

\* poly.getNode(address)
getNode(a) == nodes[a] # 0

\* poly.addNode(node): the registry is a dict keyed by address.
addNode(a) ==
    /\ nodes' = [nodes EXCEPT ![a] = @ + 1]
    /\ order' = IF getNode(a) THEN order ELSE Append(order, a)

\* lifxlan.LifxLAN(): an object that is not the one held before.  Objects
\* are told apart by a number, reused once MaxClients have been made.
NewClient(old) == (old % MaxClients) + 1

\* discover(), lines 117-121: a new client, then the single-flight check.
discover(c) ==
    /\ callpc[c] = "idle"
    /\ lifxLan' = NewClient(lifxLan)
    /\ callpc' = [callpc EXCEPT ![c] =
          IF discovery_thread # 0 /\ IsAlive(discovery_thread)
          THEN "idle" ELSE "create"]
    /\ UNCHANGED <<grpMembers, cust_data, devlist, devfile, discovery_thread, threads, nodes,
                   order, bulbs_found, gv0, pollVars, devVars>>

\* discover(), line 122: self.discovery_thread = Thread(...)
discover_create(c) ==
    /\ callpc[c] = "create"
    /\ \E t \in Threads :
          /\ threads[t].st = "unborn"
          /\ \A u \in Threads : u < t => threads[u].st # "unborn"
          /\ threads' = [threads EXCEPT ![t].st = "new"]
          /\ discovery_thread' = t
    /\ callpc' = [callpc EXCEPT ![c] = "start"]
    /\ UNCHANGED <<grpMembers, cust_data, lifxLan, devlist, devfile, nodes, order, bulbs_found, gv0, pollVars, devVars>>

\* discover(), line 123: self.discovery_thread.start().  The attribute is
\* read again: None raises AttributeError, a Thread started before raises
\* RuntimeError, and either ends the call with no thread started.
discover_start(c) ==
    /\ callpc[c] = "start"
    /\ callpc' = [callpc EXCEPT ![c] = "idle"]
    /\ IF discovery_thread # 0 /\ threads[discovery_thread].st = "new"
       THEN threads' = [threads EXCEPT ![discovery_thread].st = "alive",
                                       ![discovery_thread].pc = "begin"]
       ELSE UNCHANGED threads
    /\ UNCHANGED <<grpMembers, cust_data, lifxLan, devlist, devfile, discovery_thread, nodes, order, bulbs_found,
                   gv0, pollVars, devVars>>

\* ------------------------------------------------------------ discovery
\* The thread's exit, by return or by an exception nothing catches.
Dead == [NewThread EXCEPT !.st = "dead", !.pc = "done"]
ThreadEnds(t) == threads' = [threads EXCEPT ![t] = Dead]

\* _discovery_process, lines 197-199.
discovery_begin(t) ==
    /\ IsAlive(t) /\ threads[t].pc = "begin"
    /\ threads' = [threads EXCEPT ![t].pc =
                      IF devlist THEN "manual" ELSE "auto"]
    /\ UNCHANGED <<grpMembers, cust_data, lifxLan, devlist, devfile, discovery_thread, callpc, nodes, order,
                   bulbs_found, gv0, pollVars, devVars>>

\* A manual discovery whose every failure ends the run.
manual_discovery_open_nofallback(t) ==
    /\ IsAlive(t) /\ threads[t].pc = "manual"
    /\ CASE devfile \in {"noopen", "empty", "noparse", "nobulbs"} ->
               ThreadEnds(t)
         [] OTHER ->
               threads' = [threads EXCEPT ![t].pc = "m_chk", ![t].i = 1]
    /\ UNCHANGED <<grpMembers, cust_data, lifxLan, devlist, devfile, discovery_thread, callpc, nodes, order,
                   bulbs_found, gv0, pollVars, devVars>>

\* A manual discovery that takes a list without a bulbs section for one
\* with it.
manual_discovery_open_registers(t) ==
    /\ IsAlive(t) /\ threads[t].pc = "manual"
    /\ CASE devfile \in {"noopen", "empty"} -> ThreadEnds(t)
         [] devfile = "noparse" ->
               threads' = [threads EXCEPT ![t].pc = "auto",
                                          ![t].man = "failed"]
         [] OTHER ->
               threads' = [threads EXCEPT ![t].pc = "m_chk", ![t].i = 1]
    /\ UNCHANGED <<grpMembers, cust_data, lifxLan, devlist, devfile, discovery_thread, callpc, nodes, order,
                   bulbs_found, gv0, pollVars, devVars>>

\* _manual_discovery, lines 126-140.  A file that cannot be opened reaches
\* line 129, whose message reads self.paramaters: the AttributeError leaves
\* the handler and ends the thread.  An empty file parses to None, and
\* 'bulbs' not in None raises TypeError at line 138.  Unparsable content and
\* a mapping without bulbs return False.
manual_discovery_open(t) ==
    /\ IsAlive(t) /\ threads[t].pc = "manual"
    /\ CASE devfile \in {"noopen", "empty"} -> ThreadEnds(t)
         [] devfile \in {"noparse", "nobulbs"} ->
               \* line 204, then on to line 205
               threads' = [threads EXCEPT ![t].pc = "auto",
                                          ![t].man = "failed"]
         [] OTHER ->
               threads' = [threads EXCEPT ![t].pc = "m_chk", ![t].i = 1]
    /\ UNCHANGED <<grpMembers, cust_data, lifxLan, devlist, devfile, discovery_thread, callpc, nodes, order,
                   bulbs_found, gv0, pollVars, devVars>>

ManualNext(t) ==
    IF threads[t].i < Len(ManualBulbs)
    THEN [threads EXCEPT ![t].pc = "m_chk", ![t].i = @ + 1]
    ELSE [threads EXCEPT ![t].pc = "m_gv0", ![t].i = 0]

\* _manual_discovery, lines 142-148: the bulb's address is looked up.
manual_discovery_check(t) ==
    /\ IsAlive(t) /\ threads[t].pc = "m_chk"
    /\ IF getNode(ManualBulbs[threads[t].i])
       THEN /\ threads' = ManualNext(t)
            /\ UNCHANGED bulbs_found
       ELSE /\ threads' = [threads EXCEPT ![t].pc = "m_add"]
            /\ bulbs_found' = bulbs_found + 1
    /\ UNCHANGED <<grpMembers, cust_data, lifxLan, devlist, devfile, discovery_thread, callpc, nodes, order, gv0,
                   pollVars, devVars>>

\* _manual_discovery, lines 149-168: b['object'] is kept and the node
\* added; for a type that is none of the three the else branch logs
\* 'Unknown type' and nothing is kept or added.
manual_discovery_add(t) ==
    /\ IsAlive(t) /\ threads[t].pc = "m_add"
    /\ IF devfile = "oddtype"
       THEN /\ threads' = ManualNext(t)
            /\ UNCHANGED <<nodes, order>>
       ELSE /\ addNode(ManualBulbs[threads[t].i])
            /\ threads' = [ManualNext(t) EXCEPT
                              ![t].made = @ \cup {ManualBulbs[threads[t].i]}]
    /\ UNCHANGED <<grpMembers, cust_data, lifxLan, devlist, devfile, discovery_thread, callpc, bulbs_found, gv0,
                   pollVars, devVars>>

\* _manual_discovery, lines 169-173.
manual_discovery_count(t) ==
    /\ IsAlive(t) /\ threads[t].pc = "m_gv0"
    /\ gv0' = bulbs_found
    /\ IF devfile \in {"nogroups", "oddtype"}
       THEN ThreadEnds(t)
       ELSE threads' = [threads EXCEPT ![t].pc = "m_grp"]
    /\ UNCHANGED <<grpMembers, cust_data, lifxLan, devlist, devfile, discovery_thread, callpc, nodes, order,
                   bulbs_found, pollVars, devVars>>

\* the members of the list's group that name an entry of the bulbs section
Resolved(file) ==
    SelectSeq(GroupMembers(file),
              LAMBDA m : \E k \in 1 .. Len(ManualBulbs) : ManualBulbs[k] = m)

\* _manual_discovery, lines 175-190: each member is looked up among the
\* bulbs by name; a name that is not there is logged and left out; the
\* entry found gives the object kept at lines 152/158/164, and a bulb
\* that was registered before this run has no 'object' key, so that line
\* 181 raises KeyError.  With no member left the group is passed over.
manual_discovery_group(t) ==
    /\ IsAlive(t) /\ threads[t].pc = "m_grp"
    /\ LET members == Resolved(devfile)
       IN IF \E k \in 1 .. Len(members) : members[k] \notin threads[t].made
          THEN ThreadEnds(t)
          ELSE IF Len(members) > 0 /\ ~getNode(G1)
               THEN threads' = [threads EXCEPT ![t].pc = "m_gadd"]
               ELSE ThreadEnds(t)
    /\ UNCHANGED <<grpMembers, cust_data, lifxLan, devlist, devfile, discovery_thread, callpc, nodes, order,
                   bulbs_found, gv0, pollVars, devVars>>

\* _manual_discovery, lines 191-194: lifxlan.Group(members) is handed to
\* Group.__init__, which counts its devices.
manual_discovery_group_add(t) ==
    /\ IsAlive(t) /\ threads[t].pc = "m_gadd"
    /\ addNode(G1)
    /\ grpMembers' = Len(Resolved(devfile))
    /\ ThreadEnds(t)
    /\ UNCHANGED <<cust_data, lifxLan, devlist, devfile, discovery_thread, callpc, bulbs_found, gv0,
                   pollVars, devVars>>

\* _discovery_process, lines 205-207 and 225: get_lights().
auto_enumerate(t) ==
    /\ IsAlive(t) /\ threads[t].pc = "auto"
    /\ \E o \in Outcomes :
          IF o = "ok"
          THEN \E l \in LanLists :
                  threads' = [threads EXCEPT ![t].auto = TRUE,
                                 ![t].devs = l, ![t].i = 1,
                                 ![t].pc = IF l = <<>> THEN "fin" ELSE "a_chk"]
          ELSE IF CaughtByDiscoveryClause(o)
               THEN threads' = [threads EXCEPT ![t].auto = TRUE,
                                               ![t].pc = "fin"]
               ELSE ThreadEnds(t)
    /\ UNCHANGED <<grpMembers, cust_data, lifxLan, devlist, devfile, discovery_thread, callpc, nodes, order,
                   bulbs_found, gv0, pollVars, devVars>>

AutoNext(t) ==
    IF threads[t].i < Len(threads[t].devs)
    THEN [threads EXCEPT ![t].pc = "a_chk", ![t].i = @ + 1]
    ELSE [threads EXCEPT ![t].pc = "fin", ![t].i = 0, ![t].devs = <<>>]

\* What a transport failure inside the try of lines 205-226 leads to.
AutoFails(t, o) ==
    IF CaughtByDiscoveryClause(o)
    THEN [threads EXCEPT ![t].pc = "fin", ![t].i = 0, ![t].devs = <<>>]
    ELSE [threads EXCEPT ![t] = Dead]

\* _discovery_process, lines 209-213: get_label(), get_mac_addr(), lookup.
auto_check(t) ==
    /\ IsAlive(t) /\ threads[t].pc = "a_chk"
    /\ \E o \in Outcomes :
          IF o # "ok"
          THEN /\ threads' = AutoFails(t, o)
               /\ UNCHANGED bulbs_found
          ELSE IF getNode(threads[t].devs[threads[t].i])
               THEN /\ threads' = [threads EXCEPT ![t].pc = "a_grp"]
                    /\ UNCHANGED bulbs_found
               ELSE /\ threads' = [threads EXCEPT ![t].pc = "a_add"]
                    /\ bulbs_found' = bulbs_found + 1
    /\ UNCHANGED <<grpMembers, cust_data, lifxLan, devlist, devfile, discovery_thread, callpc, nodes, order, gv0,
                   pollVars, devVars>>

\* _discovery_process, lines 214-219: supports_multizone() asks the light
\* for its product when the object does not know it yet, and is inside
\* the try of line 205 like every call of the loop.
auto_add(t) ==
    /\ IsAlive(t) /\ threads[t].pc = "a_add"
    /\ \E o \in Outcomes :
          IF o # "ok"
          THEN /\ threads' = AutoFails(t, o)
               /\ UNCHANGED <<nodes, order>>
          ELSE /\ addNode(threads[t].devs[threads[t].i])
               /\ threads' = [threads EXCEPT ![t].pc = "a_grp"]
    /\ UNCHANGED <<grpMembers, cust_data, lifxLan, devlist, devfile, discovery_thread, callpc, bulbs_found, gv0,
                   pollVars, devVars>>

\* _discovery_process, lines 220-222: get_group_tuple() and the lookup.
auto_group(t) ==
    /\ IsAlive(t) /\ threads[t].pc = "a_grp"
    /\ \E o \in Outcomes :
          IF o # "ok"
          THEN threads' = AutoFails(t, o)
          ELSE IF getNode(G1)
               THEN threads' = AutoNext(t)
               ELSE threads' = [threads EXCEPT ![t].pc = "a_gadd"]
    /\ UNCHANGED <<grpMembers, cust_data, lifxLan, devlist, devfile, discovery_thread, callpc, nodes, order,
                   bulbs_found, gv0, pollVars, devVars>>

\* _discovery_process, lines 223-224: Group.__init__ asks the client for the
\* group's devices (line 1170) and counts them (line 1171), then the node
\* is added; the count is not looked at.
auto_group_add(t) ==
    /\ IsAlive(t) /\ threads[t].pc = "a_gadd"
    /\ \E o \in Outcomes :
          IF o # "ok"
          THEN /\ threads' = AutoFails(t, o)
               /\ UNCHANGED <<nodes, order, grpMembers>>
          ELSE /\ addNode(G1)
               /\ \E n \in GroupAnswers : grpMembers' = n
               /\ threads' = AutoNext(t)
    /\ UNCHANGED <<cust_data, lifxLan, devlist, devfile, discovery_thread, callpc, bulbs_found, gv0,
                   pollVars, devVars>>

\* _discovery_process, lines 227-236.
discovery_finish(t) ==
    /\ IsAlive(t) /\ threads[t].pc = "fin"
    /\ gv0' = bulbs_found
    /\ ThreadEnds(t)
    /\ UNCHANGED <<grpMembers, cust_data, lifxLan, devlist, devfile, discovery_thread, callpc, nodes, order,
                   bulbs_found, pollVars, devVars>>

\* ------------------------------------------------------------ poll
\* Whether node.update() / node.long_update() lets an exception out, given
\* the outcome w of get_wifi_signal_mw().  Light.update catches Exception
\* around each read; long_update's last clause (line 385) names three
\* kinds.  Controller.update, Controller.long_update, Group.long_update do
\* nothing and Group.update reads a list's length.
RefreshRaises(a, pt, w) ==
    /\ pt = "longPoll"
    /\ KindOf(a) \in {"bulb", "multizone"}
    /\ w # "ok"
    /\ ~CaughtByWifiClause(w)

\* poll(), lines 98-103: the discovery check, then the start of the loop
\* over poly.getNodes().values().
poll(pt) ==
    /\ pollpc = "idle"
    /\ polltype' = pt
    /\ pollSawAlive' = (AliveThreads # {})
    /\ pollVisited' = {}
    /\ pollResized' = FALSE
    /\ IF discovery_thread # 0 /\ IsAlive(discovery_thread)
       THEN /\ pollResult' = "skipped"
            /\ pollSnap' = <<>>
            /\ polli' = 0
            /\ pollpc' = "return"
            /\ UNCHANGED discovery_thread
       ELSE /\ discovery_thread' = 0
            /\ pollResult' = "running"
            /\ pollSnap' = order
            /\ polli' = 1
            /\ pollpc' = "sweep"
    /\ UNCHANGED <<grpMembers, cust_data, lifxLan, devlist, devfile, threads, callpc, nodes, order,
                   bulbs_found, gv0, devVars>>

\* poll(), lines 104-108: one node of the loop.  The loop runs over the
\* registry's own dict: when a discovery thread has added a key since the
\* loop began, the iterator may raise RuntimeError (a live view) or go on
\* (a copy); the hub library decides, so both are allowed.
poll_visit ==
    /\ pollpc = "sweep"
    /\ LET a == pollSnap[polli]
           grown == Len(order) # Len(pollSnap)
       IN  \/ /\ grown
              /\ pollResized' = TRUE
              /\ pollResult' = "aborted"
              /\ pollpc' = "return"
              /\ UNCHANGED <<pollVisited, polli>>
           \/ \E w \in Outcomes :
                 /\ pollVisited' = pollVisited \cup {a}
                 /\ pollResized' = (pollResized \/ grown)
                 /\ IF RefreshRaises(a, polltype, w)
                    THEN /\ pollResult' = "aborted"
                         /\ pollpc' = "return"
                         /\ UNCHANGED polli
                    ELSE IF polli < Len(pollSnap)
                         THEN /\ polli' = polli + 1
                              /\ UNCHANGED <<pollResult, pollpc>>
                         ELSE /\ pollResult' = "complete"
                              /\ pollpc' = "return"
                              /\ UNCHANGED polli
    /\ UNCHANGED <<ctlVars, polltype, pollSnap, pollSawAlive, devVars>>

\* poll() returns (or the exception leaves it): its locals are gone.
poll_return ==
    /\ pollpc = "return"
    /\ pollpc' = "idle"
    /\ polltype' = "shortPoll"
    /\ pollSnap' = <<>>
    /\ polli' = 0
    /\ pollVisited' = {}
    /\ pollResult' = "none"
    /\ pollSawAlive' = FALSE
    /\ pollResized' = FALSE
    /\ UNCHANGED <<ctlVars, devVars>>

NextCtl ==
    \/ \E c \in Callers : discover(c)
    \/ \E c \in Callers : discover_create(c)
    \/ \E c \in Callers : discover_start(c)
    \/ \E t \in Threads : discovery_begin(t)
    \/ \E t \in Threads : manual_discovery_open(t)
    \/ \E t \in Threads : manual_discovery_check(t)
    \/ \E t \in Threads : manual_discovery_add(t)
    \/ \E t \in Threads : manual_discovery_count(t)
    \/ \E t \in Threads : manual_discovery_group(t)
    \/ \E t \in Threads : manual_discovery_group_add(t)
    \/ \E t \in Threads : auto_enumerate(t)
    \/ \E t \in Threads : auto_check(t)
    \/ \E t \in Threads : auto_add(t)
    \/ \E t \in Threads : auto_group(t)
    \/ \E t \in Threads : auto_group_add(t)
    \/ \E t \in Threads : discovery_finish(t)
    \/ \E pt \in {"shortPoll", "longPoll"} : poll(pt)
    \/ poll_visit
    \/ poll_return

\* ---------------------------------------------------------------- devices
\* One device node (a Bulb or a MultiZone) and the handlers of its class.
\* A handler is an operator from the object's state and the outcomes of
\* the transport calls it makes to the object's state afterwards; each
\* command or refresh is one action applying it.

\* the most zones a strip reports
MaxZones == 2

\* DIM and BRT are issued while the brightness they produce stays within
\* this many steps of BR_MIN or of BR_MAX
MaxSteps == 1

\* command.get('value') is None
NoValue == -1

Topologies == {"bulb", "multizone"}

COLORS(id) ==
    CASE id = 0 -> <<62978, 65535, 65535, 3500>>
      [] id = 1 -> <<5525, 65535, 65535, 3500>>
      [] id = 2 -> <<7615, 65535, 65535, 3500>>
      [] id = 3 -> <<16173, 65535, 65535, 3500>>
      [] id = 4 -> <<29814, 65535, 65535, 3500>>
      [] id = 5 -> <<43634, 65535, 65535, 3500>>
      [] id = 6 -> <<50486, 65535, 65535, 3500>>
      [] id = 7 -> <<58275, 65535, 47142, 3500>>
      [] id = 8 -> <<58275, 0, 65535, 5500>>
      [] id = 9 -> <<58275, 0, 65535, 9000>>
      [] id = 10 -> <<58275, 0, 65535, 3200>>
      [] id = 11 -> <<58275, 0, 65535, 2500>>

ValidColor(id) == id \in 0 .. 11

\* What the transport can answer.  A read is a record: ok says whether
\* the call returned, v is the value it returned.
DeviceColors ==
    {<<62978, 65535, 65535, 3500>>, <<62978, 65535, 3930, 3500>>,
     <<62978, 65535, 0, 3500>>}
ColorReads ==
    {[ok |-> FALSE, v |-> <<>>]} \cup {[ok |-> TRUE, v |-> c] : c \in DeviceColors}
ZoneColors == {<<62978, 65535, 65535, 3500>>, <<62978, 65535, 3930, 3500>>}
ZoneReads ==
    {[ok |-> FALSE, v |-> <<>>]} \cup
    {[ok |-> TRUE, v |-> z] : z \in [1 .. MaxZones -> ZoneColors]}
PowerReads == {[ok |-> FALSE, v |-> 0], [ok |-> TRUE, v |-> 0], [ok |-> TRUE, v |-> 65535]}
\* get_uptime() then supports_infrared(): up and sup say which returned,
\* ir is what supports_infrared() answered
UptimeReads ==
    {[up |-> FALSE, sup |-> FALSE, ir |-> FALSE], [up |-> TRUE, sup |-> FALSE, ir |-> FALSE],
     [up |-> TRUE, sup |-> TRUE, ir |-> FALSE], [up |-> TRUE, sup |-> TRUE, ir |-> TRUE]}
\* get_wifi_signal_mw() answering 0 makes math.log10 raise ValueError
WifiOutcomes == {"ok", "WorkflowException", "ValueError", "TypeError"}
\* a write returns, raises the client's WorkflowException, or raises
\* something else
WriteOutcomes == {"ok", "WorkflowException", "OSError"}

\* the values the hub sends with the commands
DonValues == {NoValue, 0, 255}
PresetIds == {0, 7, 12}
ManualCmds == {"SETH", "SETS", "SETB", "CLITEMP", "RR"}
ManualValues(cmd) ==
    CASE cmd = "SETH" -> {5525}
      [] cmd = "SETS" -> {65535}
      [] cmd = "SETB" -> {0, 3930}
      [] cmd = "CLITEMP" -> {3500}
      [] cmd = "RR" -> {1000}
\* the query of SET_HSBKD: with every field, without D, with B = 0,
\* without any field
HsbkdQueries ==
    {[hsbk |-> TRUE, d |-> TRUE, color |-> <<5525, 65535, 3930, 3500>>, duration |-> 1000],
     [hsbk |-> TRUE, d |-> FALSE, color |-> <<5525, 65535, 3930, 3500>>, duration |-> 0],
     [hsbk |-> TRUE, d |-> TRUE, color |-> <<5525, 65535, 0, 3500>>, duration |-> 0],
     [hsbk |-> FALSE, d |-> FALSE, color |-> <<>>, duration |-> 0]}
IrValues == {32768}
WaveForms == {1, 6}

\* round(a / b) for a >= 0, b > 0
RoundDiv(a, b) == IF 2 * (a % b) >= b THEN (a \div b) + 1 ELSE a \div b

\* round(100 * a / b, 4) in ten-thousandths, whole part and fraction
\* apart to stay within 32 bits
Percent(a, b) ==
    ((100 * a) \div b) * 10000 + RoundDiv(((100 * a) % b) * 10000, b)

\* Light._bri_to_percent, in ten-thousandths of a percent
bri_to_percent(bri) == Percent(bri, 65535)

\* the drivers whose value is kept; setDriver of any other is not recorded
KeptDrivers == {"ST"}

\* Light.__init__ / MultiZone.__init__; the drivers start at their
\* declared value 0; uptime and lastupdate are written and never read.
NewLight(topo) ==
    [topo |-> topo, power |-> FALSE, connected |-> 1, color |-> <<>>,
     duration |-> 0, ir_support |-> FALSE,
     num_zones |-> 0, current_zone |-> 0, pending |-> FALSE, new_color |-> <<>>,
     effect |-> 0,
     drv |-> [d \in KeptDrivers |-> 0],
     \* what the last handler did
     last |-> "idle", calls |-> <<>>, reported |-> "none", raised |-> FALSE]

\* a handler is entered
Begin(s, name) ==
    [s EXCEPT !.last = name, !.calls = <<>>, !.reported = "none", !.raised = FALSE]

\* one call of self.device
Call(s, op, arg, ok) ==
    [s EXCEPT !.calls = Append(@, [op |-> op, arg |-> arg, ok |-> ok])]

set_color(s, color, trans, o) == Call(s, "set_color", <<color, trans>>, o = "ok")
set_power(s, on, o) == Call(s, "set_power", <<on>>, o = "ok")

setDriver(s, d, v) ==
    IF d \in KeptDrivers THEN [s EXCEPT !.drv = [@ EXCEPT ![d] = v]] ELSE s

\* an exception leaves the handler
Raise(s) == [s EXCEPT !.raised = TRUE]

\* self.color[2] raises IndexError while self.color is []
NoColor(s) == Len(s.color) = 0

\* report_power reporting the level on every poll, not the change
report_power_level(s, power_now) ==
    [s EXCEPT !.reported = IF power_now THEN "DON" ELSE "DOF",
              !.power = power_now]

\* reportCmd('DON') / reportCmd('DOF') when the power read differs from
\* the mirror; the mirror then takes the read value
report_power(s, power_now) ==
    [s EXCEPT !.reported = IF s.power # power_now
                           THEN (IF power_now THEN "DON" ELSE "DOF")
                           ELSE @,
              !.power = power_now]

\* Light.update without the return at the failed color read
Light_update_reads_on(s0, rc, rp) ==
    LET s1 == Call([s0 EXCEPT !.connected = 0], "get_color", <<>>, rc.ok)
        s2 == IF rc.ok THEN [s1 EXCEPT !.color = rc.v, !.connected = 1] ELSE s1
        s3 == Call(s2, "get_power", <<rp.v>>, rp.ok)
        s4 == IF ~rp.ok THEN s3
              ELSE LET s5 == [report_power(s3, rp.v = 65535) EXCEPT !.connected = 1]
                   IN setDriver(s5, "ST",
                                IF s5.power /\ ~NoColor(s5)
                                THEN bri_to_percent(s5.color[3]) ELSE 0)
    IN s4

\* Light.update
Light_update(s0, rc, rp) ==
    LET s1 == Call([s0 EXCEPT !.connected = 0], "get_color", <<>>, rc.ok)
    IN
    IF ~rc.ok THEN setDriver(s1, "GV5", s1.connected)
    ELSE
        LET s2 == setDriver([s1 EXCEPT !.color = rc.v, !.connected = 1],
                            "GV3", rc.v[3])
            s3 == Call(s2, "get_power", <<rp.v>>, rp.ok)
            s4 == IF ~rp.ok THEN s3
                  ELSE LET s5 == [report_power(s3, rp.v = 65535)
                                    EXCEPT !.connected = 1]
                       IN setDriver(s5, "ST",
                                    IF s5.power THEN bri_to_percent(s5.color[3])
                                    ELSE 0)
        IN setDriver(s4, "GV5", s4.connected)

\* MultiZone._set_st
set_st(s) ==
    IF s.num_zones = 0 THEN s
    ELSE IF s.power
    THEN LET Sum[k \in 0 .. Len(s.color)] ==
                 IF k = 0 THEN 0 ELSE Sum[k - 1] + s.color[k][3]
         IN setDriver(s, "ST", Percent(Sum[Len(s.color)], s.num_zones * 65535))
    ELSE setDriver(s, "ST", 0)

\* the power half of MultiZone.update
MultiZone_update_power(s, rp) ==
    LET s1 == Call(s, "get_power", <<rp.v>>, rp.ok)
        s2 == IF ~rp.ok THEN s1
              ELSE set_st([report_power(s1, rp.v = 65535) EXCEPT !.connected = 1])
    IN setDriver(s2, "GV5", s2.connected)

\* MultiZone.update with the flag left to the power read alone
MultiZone_update_power_only(s0, rz, rp) ==
    LET s1 == [s0 EXCEPT !.connected = 0]
    IN
    IF s1.pending THEN MultiZone_update_power(s1, rp)
    ELSE
        LET s2 == Call(s1, "get_color_zones", <<>>, rz.ok)
        IN
        IF ~rz.ok THEN MultiZone_update_power(s2, rp)
        ELSE MultiZone_update_power(
                 [s2 EXCEPT !.color = rz.v, !.num_zones = Len(rz.v)], rp)

\* MultiZone.update.  zone is the list index of the cursor; a cursor
\* beyond the zones just read raises IndexError at the driver update.
MultiZone_update(s0, rz, rp) ==
    LET zone == IF s0.current_zone # 0 THEN s0.current_zone - 1 ELSE 0
        s1 == [s0 EXCEPT !.connected = 0]
    IN
    IF s1.pending THEN MultiZone_update_power(s1, rp)
    ELSE
        LET s2 == Call(s1, "get_color_zones", <<>>, rz.ok)
        IN
        IF ~rz.ok THEN MultiZone_update_power(s2, rp)
        ELSE
            LET s3 == [s2 EXCEPT !.color = rz.v, !.connected = 1,
                                 !.num_zones = Len(rz.v)]
            IN IF zone + 1 > Len(rz.v) THEN Raise(s3)
               ELSE MultiZone_update_power(
                                      setDriver(s3, "GV3", rz.v[zone + 1][3]), rp)

\* Light.long_update without the reset of the flag at its start
Light_long_update_sticky(s0, ru, ri, ow) ==
    LET s1 == Call(s0, "get_uptime", <<>>, ru.up)
        s2 == IF ~ru.up THEN s1
              ELSE LET s3 == Call(s1, "supports_infrared", <<>>, ru.sup)
                   IN IF ru.sup
                      THEN [s3 EXCEPT !.ir_support = ru.ir, !.connected = 1]
                      ELSE s3
        s4 == IF ~s2.ir_support THEN s2
              ELSE LET s5 == Call(s2, "get_infrared", <<>>, ri)
                   IN IF ri THEN [s5 EXCEPT !.connected = 1] ELSE s5
        s6 == Call(s4, "get_wifi_signal_mw", <<>>, ow = "ok")
    IN IF ow = "ok" THEN [s6 EXCEPT !.connected = 1]
       ELSE IF CaughtByWifiClause(ow) THEN s6 ELSE Raise(s6)

\* Light.long_update, inherited by MultiZone.  The uptime step is
\* get_uptime() and supports_infrared() in one try; the signal step is the
\* call and the conversion of its answer in one try.
Light_long_update(s0, ru, ri, ow) ==
    LET s1 == Call([s0 EXCEPT !.connected = 0], "get_uptime", <<>>, ru.up)
        s2 == IF ~ru.up THEN s1
              ELSE LET s3 == Call(s1, "supports_infrared", <<>>, ru.sup)
                   IN IF ru.sup
                      THEN [s3 EXCEPT !.ir_support = ru.ir, !.connected = 1]
                      ELSE s3
        s4 == IF ~s2.ir_support THEN s2
              ELSE LET s5 == Call(s2, "get_infrared", <<>>, ri)
                   IN IF ri THEN [s5 EXCEPT !.connected = 1] ELSE s5
        s6 == Call(s4, "get_wifi_signal_mw", <<>>, ow = "ok")
    IN
    IF ow = "ok"
    THEN setDriver([s6 EXCEPT !.connected = 1], "GV5", 1)
    ELSE IF CaughtByWifiClause(ow)
    THEN setDriver(s6, "GV5", s6.connected)
    ELSE Raise(s6)

\* node.update() of the object's class
update(s, rc, rp) ==
    IF s.topo = "bulb" THEN Light_update(s, rc, rp) ELSE MultiZone_update(s, rc, rp)

\* Light.query: reportDrivers() sends the drivers as they are
query(s, rc, rp, ru, ri, ow) ==
    LET s1 == update(s, rc, rp)
    IN IF s1.raised THEN s1 ELSE Light_long_update(s1, ru, ri, ow)

\* try: <write> except lifxlan.WorkflowException
Try(o, done, caught, escaped) ==
    IF o = "ok" THEN done ELSE IF CaughtByWorkflow(o) THEN caught ELSE escaped

\* set_power(True), then the mirror and ST: the end of setOn and of
\* _power_on_change
power_on(s, op) ==
    LET s1 == set_power(s, TRUE, op)
        s2 == [s1 EXCEPT !.power = TRUE]
    IN Try(op,
           IF NoColor(s2) THEN Raise(s2)
           ELSE setDriver(s2, "ST", bri_to_percent(s2.color[3])),
           s1, Raise(s1))

\* Light._power_on_change
power_on_change(s, op) ==
    IF ~change_pon \/ s.power THEN s ELSE power_on(s, op)

\* Light.setOn from "if new_bri is not None" on, with a new_bri
setOn_bri(s, new_bri, trans, oc, op) ==
    IF NoColor(s) THEN Raise(s)
    ELSE LET s1 == [s EXCEPT !.color[3] = new_bri]
             s2 == set_color(s1, s1.color, trans, oc)
         IN Try(oc, power_on(setDriver(s2, "GV3", new_bri), op),
                power_on(s2, op), Raise(s2))

\* Light.setOn
setOn(s, cmd, val, oc, op) ==
    LET lvl == RoundDiv(val * 65535, 255)
        new_bri == IF lvl > BR_MAX THEN BR_MAX
                   ELSE IF lvl < BR_MIN THEN BR_MIN ELSE lvl
    IN
    IF cmd = "DFON" /\ NoColor(s) THEN Raise(s)
    ELSE IF cmd = "DFON" /\ s.color[3] # BR_MAX
    THEN setOn_bri(s, BR_MAX, 0, oc, op)
    ELSE IF cmd = "DON" /\ val # NoValue
    THEN setOn_bri(s, new_bri, s.duration, oc, op)
    ELSE IF s.power /\ ignore_second_on THEN s
    ELSE IF s.power /\ NoColor(s) THEN Raise(s)
    ELSE IF s.power /\ s.color[3] # BR_MAX
    THEN setOn_bri(s, BR_MAX, s.duration, oc, op)
    ELSE power_on(s, op)

\* Light.setOff
setOff(s, op) ==
    LET s1 == set_power(s, FALSE, op)
    IN Try(op, setDriver([s1 EXCEPT !.power = FALSE], "ST", 0), s1, Raise(s1))

\* a brightness step of dim and brighten: mirror, write, drivers
step_to(s, new_bri, oc) ==
    LET s1 == [s EXCEPT !.color[3] = new_bri]
        s2 == set_color(s1, s1.color, BRTDIM_INTERVAL, oc)
    IN Try(oc,
           setDriver(setDriver(s2, "ST", bri_to_percent(new_bri)), "GV3", new_bri),
           s2, Raise(s2))

\* Light.dim writing the dimmed color and leaving the mirror as it was
dim_write_only(s, oc) ==
    IF NoColor(s) THEN Raise(s)
    ELSE LET new_bri == s.color[3] - BR_INCREMENT
             new_color == [s.color EXCEPT ![3] = IF new_bri < BR_MIN THEN BR_MIN
                                                ELSE new_bri]
             s1 == set_color(s, new_color, BRTDIM_INTERVAL, oc)
         IN Try(oc, setDriver(s1, "ST", bri_to_percent(new_color[3])), s1, Raise(s1))

\* Light.dim: an off bulb is logged and dimmed all the same
dim(s, oc) ==
    IF NoColor(s) THEN Raise(s)
    ELSE LET new_bri == s.color[3] - BR_INCREMENT
         IN step_to(s, IF new_bri < BR_MIN THEN BR_MIN ELSE new_bri, oc)

\* the off branch of brighten and fade_up: set_color and set_power share
\* one try
on_at_minimum(s, oc, op) ==
    IF NoColor(s) THEN Raise(s)
    ELSE LET s1 == [s EXCEPT !.color[3] = BR_MIN]
             s2 == set_color(s1, s1.color, 0, oc)
             s3 == set_power(s2, TRUE, op)
         IN Try(oc,
                Try(op, setDriver([s3 EXCEPT !.power = TRUE], "ST",
                                  bri_to_percent(BR_MIN)),
                    s3, Raise(s3)),
                s2, Raise(s2))

\* Light.brighten
brighten(s, oc, op) ==
    IF ~s.power THEN on_at_minimum(s, oc, op)
    ELSE IF NoColor(s) THEN Raise(s)
    ELSE LET new_bri == s.color[3] + BR_INCREMENT
         IN step_to(s, IF new_bri > BR_MAX THEN BR_MAX ELSE new_bri, oc)

\* Light.fade_up from "if self.color[2] == BR_MAX" on
fade_to_max(s, oc) ==
    IF NoColor(s) THEN Raise(s)
    ELSE IF s.color[3] = BR_MAX THEN s
    ELSE LET s1 == [s EXCEPT !.color[3] = BR_MAX]
             s2 == set_color(s1, s1.color, FADE_INTERVAL, oc)
         IN Try(oc, s2, s2, Raise(s2))

\* Light.fade_up: the off branch does not return
fade_up(s, oc1, op, oc2) ==
    IF ~s.power
    THEN LET s1 == on_at_minimum(s, oc1, op)
         IN IF s1.raised THEN s1 ELSE fade_to_max(s1, oc2)
    ELSE fade_to_max(s, oc2)

\* Light.fade_down without the look at the power
fade_down_unchecked(s, oc) ==
    IF NoColor(s) THEN Raise(s)
    ELSE IF s.color[3] <= BR_MIN THEN s
    ELSE LET s1 == [s EXCEPT !.color[3] = BR_MIN]
             s2 == set_color(s1, s1.color, FADE_INTERVAL, oc)
         IN Try(oc, s2, s2, Raise(s2))

\* Light.fade_down
fade_down(s, oc) ==
    IF ~s.power THEN s
    ELSE IF NoColor(s) THEN Raise(s)
    ELSE IF s.color[3] <= BR_MIN THEN s
    ELSE LET s1 == [s EXCEPT !.color[3] = BR_MIN]
             s2 == set_color(s1, s1.color, FADE_INTERVAL, oc)
         IN Try(oc, s2, s2, Raise(s2))

\* Light.fade_stop without the write after the read
fade_stop_read_only(s, rc, oc) ==
    IF ~s.power THEN s
    ELSE LET s1 == Call(s, "get_color", <<>>, rc.ok)
         IN IF rc.ok THEN setDriver([s1 EXCEPT !.color = rc.v], "GV3", rc.v[3])
            ELSE s1

\* Light.fade_stop
fade_stop(s, rc, oc) ==
    IF ~s.power THEN s
    ELSE LET s1 == Call(s, "get_color", <<>>, rc.ok)
             s2 == IF rc.ok THEN setDriver([s1 EXCEPT !.color = rc.v], "GV3", rc.v[3])
                   ELSE s1
         IN IF NoColor(s2) THEN Raise(s2)
            ELSE IF s2.color[3] = BR_MIN \/ s2.color[3] = BR_MAX THEN s2
            ELSE LET s3 == set_color(s2, s2.color, 0, oc)
                 IN Try(oc, s3, s3, Raise(s3))

\* Light.setColor: COLORS[_color] of an unknown id raises KeyError inside
\* the try, before the call
setColor(s, id, oc, op) ==
    IF s.connected = 0 THEN s
    ELSE IF ~ValidColor(id) THEN Raise(s)
    ELSE LET s1 == set_color(s, COLORS(id), s.duration, oc)
         IN IF oc # "ok" /\ ~CaughtByWorkflow(oc) THEN Raise(s1)
            ELSE power_on_change(setDriver(s1, "GV3", COLORS(id)[3]), op)

\* the list index of the field a setter command writes
FieldOf(cmd) ==
    CASE cmd = "SETH" -> 1 [] cmd = "SETS" -> 2
      [] cmd = "SETB" -> 3 [] cmd = "CLITEMP" -> 4

\* Light.setManual
setManual(s, cmd, val, oc, op) ==
    IF s.connected = 0 THEN s
    ELSE IF cmd # "RR" /\ NoColor(s) THEN Raise(s)
    ELSE LET s1 == IF cmd = "RR" THEN [s EXCEPT !.duration = val]
                   ELSE [s EXCEPT !.color[FieldOf(cmd)] = val]
             s2 == set_color(s1, s1.color, s1.duration, oc)
         IN IF oc # "ok" /\ ~CaughtByWorkflow(oc) THEN Raise(s2)
            ELSE power_on_change(IF cmd = "SETB" THEN setDriver(s2, "GV3", val)
                                 ELSE s2, op)

\* Light.setHSBKD: a missing field makes int(None) raise TypeError, which
\* is caught; the color is assigned before D is read
setHSBKD(s, q, oc, op) ==
    LET s1 == [s EXCEPT !.color = IF q.hsbk THEN q.color ELSE @,
                        !.duration = IF q.hsbk /\ q.d THEN q.duration ELSE 0]
        s2 == set_color(s1, s1.color, s1.duration, oc)
    IN IF oc # "ok" /\ ~CaughtByWorkflow(oc) THEN Raise(s2)
       ELSE IF NoColor(s2) THEN Raise(s2)
       ELSE power_on_change(setDriver(s2, "GV3", s2.color[3]), op)

\* Light.set_ir_brightness
set_ir_brightness(s, val, o) ==
    IF ~s.ir_support THEN s
    ELSE LET s1 == Call(s, "set_infrared", <<val>>, o = "ok")
         IN Try(o, s1, s1, Raise(s1))

\* Light.set_wf: the color, period, cycles and duty cycle of the query
\* are passed through as they come
set_wf(s, wf_form, o) ==
    IF ~s.power THEN s
    ELSE LET wf_transient == IF wf_form >= 5 THEN 1 ELSE 0
             form == IF wf_form >= 5 THEN wf_form - 5 ELSE wf_form
             s1 == Call(s, "set_waveform", <<wf_transient, form>>, o = "ok")
         IN Try(o, s1, s1, Raise(s1))

\* ---------------------------------------------------------------- actions
\* One action per refresh and per command of the commands table; the
\* outcomes of the transport calls are the inputs.

DevStep(s) ==
    /\ dev.last = "idle"
    /\ dev' = s
    /\ UNCHANGED <<ctlVars, pollVars, change_pon, ignore_second_on, dimpc, trail, lastSave>>

\* the node runs Light's handlers: a Light, or a Tile, which inherits them
IsBulb == dev.topo \in {"bulb", "tile"}

InWindow(b) ==
    \/ b <= BR_MIN + MaxSteps * BR_INCREMENT
    \/ b >= BR_MAX - MaxSteps * BR_INCREMENT

\* Controller.poll, shortPoll: node.update()
node_update ==
    \E rc \in IF IsBulb THEN ColorReads ELSE ZoneReads, rp \in PowerReads :
        DevStep(update(Begin(dev, "update"), rc, rp))

\* the answers get_infrared() can give after the uptime step ru: it is
\* called only when ir_support is set by then
InfraredReads(ru) ==
    IF (ru.up /\ ru.sup /\ ru.ir) \/ (~(ru.up /\ ru.sup) /\ dev.ir_support)
    THEN BOOLEAN ELSE {FALSE}

\* Controller.poll, longPoll: node.long_update()
node_long_update ==
    \E ru \in UptimeReads : \E ri \in InfraredReads(ru), ow \in WifiOutcomes :
        DevStep(Light_long_update(Begin(dev, "long_update"), ru, ri, ow))

QUERY ==
    \E rc \in IF IsBulb THEN ColorReads ELSE ZoneReads, rp \in PowerReads,
       ru \in UptimeReads :
        \E ri \in InfraredReads(ru), ow \in WifiOutcomes :
        DevStep(query(Begin(dev, "QUERY"), rc, rp, ru, ri, ow))

DON ==
    /\ IsBulb
    /\ \E val \in DonValues, oc, op \in WriteOutcomes :
           DevStep(setOn(Begin(dev, "DON"), "DON", val, oc, op))

DFON ==
    /\ IsBulb
    /\ \E oc, op \in WriteOutcomes :
           DevStep(setOn(Begin(dev, "DFON"), "DFON", NoValue, oc, op))

DOF == \E op \in WriteOutcomes : DevStep(setOff(Begin(dev, "DOF"), op))

DFOF == \E op \in WriteOutcomes : DevStep(setOff(Begin(dev, "DFOF"), op))

DIM ==
    /\ IsBulb
    /\ IF NoColor(dev) THEN TRUE ELSE InWindow(dev.color[3] - BR_INCREMENT)
    /\ \E oc \in WriteOutcomes : DevStep(dim(Begin(dev, "DIM"), oc))

BRT ==
    /\ IsBulb
    /\ IF NoColor(dev) THEN TRUE ELSE InWindow(dev.color[3] + BR_INCREMENT)
    /\ \E oc, op \in WriteOutcomes : DevStep(brighten(Begin(dev, "BRT"), oc, op))

FDUP ==
    /\ IsBulb
    /\ \E oc1, op, oc2 \in WriteOutcomes :
           DevStep(fade_up(Begin(dev, "FDUP"), oc1, op, oc2))

FDDOWN ==
    /\ IsBulb
    /\ \E oc \in WriteOutcomes : DevStep(fade_down(Begin(dev, "FDDOWN"), oc))

FDSTOP ==
    /\ IsBulb
    /\ \E rc \in ColorReads, oc \in WriteOutcomes :
           DevStep(fade_stop(Begin(dev, "FDSTOP"), rc, oc))

SET_COLOR ==
    /\ IsBulb
    /\ \E id \in PresetIds, oc, op \in WriteOutcomes :
           DevStep(setColor(Begin(dev, "SET_COLOR"), id, oc, op))

SET_MANUAL ==
    /\ IsBulb
    /\ \E cmd \in ManualCmds : \E val \in ManualValues(cmd), oc, op \in WriteOutcomes :
           DevStep(setManual(Begin(dev, cmd), cmd, val, oc, op))

SET_HSBKD ==
    /\ IsBulb
    /\ \E q \in HsbkdQueries, oc, op \in WriteOutcomes :
           DevStep(setHSBKD(Begin(dev, "SET_HSBKD"), q, oc, op))

SETIR ==
    \E val \in IrValues, o \in WriteOutcomes :
        DevStep(set_ir_brightness(Begin(dev, "SETIR"), val, o))

WAVEFORM ==
    \E wf_form \in WaveForms, o \in WriteOutcomes :
        DevStep(set_wf(Begin(dev, "WAVEFORM"), wf_form, o))

\* the handler returns: what it did is forgotten, the object stays
handler_return ==
    /\ dev.last # "idle"
    /\ dev' = Begin(dev, "idle")
    /\ UNCHANGED <<ctlVars, pollVars, change_pon, ignore_second_on, dimpc, trail, lastSave>>

NextDev ==
    \/ node_update
    \/ node_long_update
    \/ QUERY
    \/ DON
    \/ DFON
    \/ DOF
    \/ DFOF
    \/ DIM
    \/ BRT
    \/ FDUP
    \/ FDDOWN
    \/ FDSTOP
    \/ SET_COLOR
    \/ SET_MANUAL
    \/ SET_HSBKD
    \/ SETIR
    \/ WAVEFORM
    \/ handler_return

\* a device on a controller that is not discovering: the policy flags are
\* the defaults, or both set by the custom parameters
InitDev ==
    /\ devlist = FALSE /\ devfile = "none"
    /\ InitIdle
    /\ \/ change_pon = TRUE /\ ignore_second_on = FALSE
       \/ change_pon = FALSE /\ ignore_second_on = TRUE
    /\ dev \in {NewLight(topo) : topo \in Topologies}
    /\ trail = <<>>

SpecDev == InitDev /\ [][NextDev]_vars

\* the controller with its discovery and its poll; the custom parameters
\* name a device list or none, and the device nodes are left alone
InitCtl ==
    /\ \/ devlist = FALSE /\ devfile = "none"
       \/ devlist = TRUE /\ devfile \in FileStates
    /\ InitIdle
    /\ change_pon = TRUE /\ ignore_second_on = FALSE
    /\ dev = NewLight("bulb")
    /\ trail = <<>>

SpecCtl == InitCtl /\ [][NextCtl]_vars

\* A started thread runs: the interpreter schedules every thread that can
\* take a step, and each transport call returns or raises (the client's
\* reads time out).
discovery_step(t) ==
    \/ discovery_begin(t)
    \/ manual_discovery_open(t)
    \/ manual_discovery_check(t)
    \/ manual_discovery_add(t)
    \/ manual_discovery_count(t)
    \/ manual_discovery_group(t)
    \/ manual_discovery_group_add(t)
    \/ auto_enumerate(t)
    \/ auto_check(t)
    \/ auto_add(t)
    \/ auto_group(t)
    \/ auto_group_add(t)
    \/ discovery_finish(t)

SpecCtlLive ==
    /\ InitCtl /\ [][NextCtl]_vars
    /\ \A t \in Threads : WF_vars(discovery_step(t))

\* ------------------------------------------------------ command sequences
\* A Bulb running handlers one after the other, each with whatever it
\* finds; the trail keeps the last handlers and the mirror each started
\* from.

\* how many handlers the trail keeps
MaxTrail == 2

Newest(seq) == IF Len(seq) > MaxTrail THEN SubSeq(seq, 1, MaxTrail) ELSE seq

SeqStep(name, s) ==
    /\ dev' = s
    /\ trail' = Newest(<<[cmd |-> name, color |-> dev.color, power |-> dev.power]>>
                         \o trail)
    /\ UNCHANGED <<ctlVars, pollVars, change_pon, ignore_second_on, dimpc, lastSave>>

seq_update ==
    \E rc \in ColorReads, rp \in PowerReads :
        SeqStep("update", Light_update(Begin(dev, "update"), rc, rp))

seq_DIM ==
    /\ IF NoColor(dev) THEN TRUE ELSE InWindow(dev.color[3] - BR_INCREMENT)
    /\ \E oc \in WriteOutcomes : SeqStep("DIM", dim(Begin(dev, "DIM"), oc))

seq_BRT ==
    /\ IF NoColor(dev) THEN TRUE ELSE InWindow(dev.color[3] + BR_INCREMENT)
    /\ \E oc, op \in WriteOutcomes :
           SeqStep("BRT", brighten(Begin(dev, "BRT"), oc, op))

seq_DOF == \E op \in WriteOutcomes : SeqStep("DOF", setOff(Begin(dev, "DOF"), op))

NextSeq ==
    \/ seq_update
    \/ seq_DIM
    \/ seq_BRT
    \/ seq_DOF

InitSeq ==
    /\ devlist = FALSE /\ devfile = "none"
    /\ InitIdle
    /\ change_pon = TRUE /\ ignore_second_on = FALSE
    /\ dev = NewLight("bulb")
    /\ trail = <<>>

SpecSeq == InitSeq /\ [][NextSeq]_vars


\* ------------------------------------------------------------ MultiZone
\* The handlers MultiZone overrides.  self.color is the list of the zones'
\* colors, current_zone the cursor (0: the whole strip, z: zone z, kept in
\* the list at index z - 1), new_color the pending batch (<<>> is None: an
\* empty list and None are both false and both refuse an item assignment).

\* except (lifxlan.WorkflowException, IOError)
CaughtByIOClause(o) == o \in {"WorkflowException", "OSError"}
\* except (lifxlan.WorkflowException, TypeError)
CaughtByTypeClause(o) == o \in {"WorkflowException", "TypeError"}

\* zone = deepcopy(self.current_zone); if self.current_zone != 0: zone -= 1
ZoneIx(cursor) == IF cursor # 0 THEN cursor - 1 ELSE 0

\* self.color[zone] raises IndexError
NoZone(s) == ZoneIx(s.current_zone) + 1 > Len(s.color)

\* self.color[zone]
ZoneColor(s) == s.color[ZoneIx(s.current_zone) + 1]

set_zone_color(s, start, end, color, trans, o) ==
    Call(s, "set_zone_color", <<start, end, color, trans>>, o = "ok")
set_zone_colors(s, colors, trans, o) ==
    Call(s, "set_zone_colors", <<colors, trans>>, o = "ok")

\* a write that goes to the whole strip wherever the cursor is
zone_write_whole(s, color, trans, o) == set_color(s, color, trans, o)

\* set_color for the whole strip when the cursor is 0, else set_zone_color
\* for the cursor's zone
zone_write(s, color, trans, o) ==
    IF s.current_zone = 0 THEN set_color(s, color, trans, o)
    ELSE set_zone_color(s, ZoneIx(s.current_zone), ZoneIx(s.current_zone),
                        color, trans, o)

\* the end of MultiZone.setOn: set_power(True), the mirror and ST
MultiZone_power_on(s, op) ==
    LET s1 == set_power(s, TRUE, op)
    IN Try(op, set_st([s1 EXCEPT !.power = TRUE]), s1, Raise(s1))

\* MultiZone.setOn from "if new_bri is not None" on, with a new_bri: the
\* color is written and the mirror keeps the old one
MultiZone_setOn_bri(s, new_bri, trans, oc, op) ==
    IF NoZone(s) THEN Raise(s)
    ELSE LET new_color == [ZoneColor(s) EXCEPT ![3] = new_bri]
             s1 == zone_write(s, new_color, trans, oc)
         IN Try(oc, MultiZone_power_on(setDriver(s1, "GV3", new_bri), op),
                MultiZone_power_on(s1, op), Raise(s1))

\* MultiZone.setOn: no look at ignore_second_on
MultiZone_setOn(s, cmd, val, oc, op) ==
    LET lvl == RoundDiv(val * 65535, 255)
        new_bri == IF lvl > BR_MAX THEN BR_MAX
                   ELSE IF lvl < BR_MIN THEN BR_MIN ELSE lvl
    IN
    IF cmd = "DFON" /\ NoZone(s) THEN Raise(s)
    ELSE IF cmd = "DFON" /\ ZoneColor(s)[3] # BR_MAX
    THEN MultiZone_setOn_bri(s, BR_MAX, 0, oc, op)
    ELSE IF cmd = "DON" /\ val # NoValue
    THEN MultiZone_setOn_bri(s, new_bri, s.duration, oc, op)
    ELSE IF s.power /\ NoZone(s) THEN Raise(s)
    ELSE IF s.power /\ ZoneColor(s)[3] # BR_MAX
    THEN MultiZone_setOn_bri(s, BR_MAX, s.duration, oc, op)
    ELSE MultiZone_power_on(s, op)

\* a brightness step of MultiZone.dim and MultiZone.brighten: the write,
\* then the drivers
MultiZone_step_to(s, new_bri, oc) ==
    LET new_color == [ZoneColor(s) EXCEPT ![3] = new_bri]
        s1 == zone_write(s, new_color, BRTDIM_INTERVAL, oc)
    IN Try(oc, setDriver(set_st(s1), "GV3", new_bri), s1, Raise(s1))

\* MultiZone.dim
MultiZone_dim(s, oc) ==
    IF NoZone(s) THEN Raise(s)
    ELSE LET new_bri == ZoneColor(s)[3] - BR_INCREMENT
         IN MultiZone_step_to(s, IF new_bri < BR_MIN THEN BR_MIN ELSE new_bri, oc)

\* the off branch of MultiZone.brighten and MultiZone.fade_up
MultiZone_on_at_minimum(s, oc, op) ==
    LET new_color == [ZoneColor(s) EXCEPT ![3] = BR_MIN]
        s1 == zone_write(s, new_color, 0, oc)
        s2 == set_power(s1, TRUE, op)
    IN Try(oc,
           Try(op, set_st([s2 EXCEPT !.power = TRUE]), s2, Raise(s2)),
           s1, Raise(s1))

\* MultiZone.brighten
MultiZone_brighten(s, oc, op) ==
    IF NoZone(s) THEN Raise(s)
    ELSE IF ~s.power THEN MultiZone_on_at_minimum(s, oc, op)
    ELSE LET new_bri == ZoneColor(s)[3] + BR_INCREMENT
         IN MultiZone_step_to(s, IF new_bri > BR_MAX THEN BR_MAX ELSE new_bri, oc)

\* MultiZone.fade_up from "if self.color[zone][2] == BR_MAX" on
MultiZone_fade_to_max(s, oc) ==
    IF ZoneColor(s)[3] = BR_MAX THEN s
    ELSE LET new_color == [ZoneColor(s) EXCEPT ![3] = BR_MAX]
             s1 == zone_write(s, new_color, FADE_INTERVAL, oc)
         IN Try(oc, s1, s1, Raise(s1))

\* MultiZone.fade_up: the off branch does not return, and the test that
\* follows it reads the mirror, which the branch has not changed
MultiZone_fade_up(s, oc1, op, oc2) ==
    IF NoZone(s) THEN Raise(s)
    ELSE IF ~s.power
    THEN LET s1 == MultiZone_on_at_minimum(s, oc1, op)
         IN IF s1.raised THEN s1 ELSE MultiZone_fade_to_max(s1, oc2)
    ELSE MultiZone_fade_to_max(s, oc2)

\* MultiZone.fade_down: list(self.color[zone]) comes before the tests
MultiZone_fade_down(s, oc) ==
    IF NoZone(s) THEN Raise(s)
    ELSE IF ~s.power THEN s
    ELSE IF ZoneColor(s)[3] <= BR_MIN THEN s
    ELSE LET new_color == [ZoneColor(s) EXCEPT ![3] = BR_MIN]
             s1 == zone_write(s, new_color, FADE_INTERVAL, oc)
         IN Try(oc, s1, s1, Raise(s1))

\* MultiZone.fade_stop
MultiZone_fade_stop(s, rz, oc) ==
    IF ~s.power THEN s
    ELSE LET s1 == Call(s, "get_color_zones", <<>>, rz.ok)
             s2 == IF rz.ok THEN [s1 EXCEPT !.color = rz.v] ELSE s1
         IN IF NoZone(s2) THEN Raise(s2)
            ELSE LET s3 == IF rz.ok THEN setDriver(s2, "GV3", ZoneColor(s2)[3])
                           ELSE s2
                 IN IF ZoneColor(s3)[3] = BR_MIN \/ ZoneColor(s3)[3] = BR_MAX
                    THEN s3
                    ELSE LET s4 == zone_write(s3, ZoneColor(s3), 0, oc)
                         IN Try(oc, s4, s4, Raise(s4))

\* MultiZone.apply: the batch becomes the mirror inside the try, the flag
\* is cleared after it
apply(s, o) ==
    LET s1 == IF s.new_color # <<>>
              THEN [s EXCEPT !.color = s.new_color, !.new_color = <<>>]
              ELSE s
        s2 == set_zone_colors(s1, s1.color, s1.duration, o)
    IN IF o = "ok" \/ CaughtByIOClause(o) THEN [s2 EXCEPT !.pending = FALSE]
       ELSE Raise(s2)

\* MultiZone.setColor: KeyError for an unknown id leaves the handler
MultiZone_setColor(s, id, o) ==
    IF s.connected = 0 THEN s
    ELSE IF ~ValidColor(id) THEN Raise(s)
    ELSE LET s1 == zone_write(s, COLORS(id), s.duration, o)
         IN IF o = "ok" \/ CaughtByIOClause(o)
            THEN setDriver(s1, "GV3", COLORS(id)[3])
            ELSE Raise(s1)

\* MultiZone.setManual taking every cursor for the whole strip
MultiZone_setManual_strip(s, cmd, val, o) ==
    IF s.connected = 0 THEN s
    ELSE
    LET s1 == IF cmd = "SETZ"
              THEN [s EXCEPT !.current_zone = IF val > s.num_zones THEN 0 ELSE val]
              ELSE s
    IN
    IF NoColor(s1) THEN Raise(s1)
    ELSE
    LET new_color == IF cmd \in {"SETH", "SETS", "SETB", "CLITEMP"}
                     THEN [s1.color[1] EXCEPT ![FieldOf(cmd)] = val]
                     ELSE s1.color[1]
        s2 == IF cmd = "RR" THEN [s1 EXCEPT !.duration = val] ELSE s1
        s3 == [s2 EXCEPT !.color[1] = new_color]
        s4 == set_color(s3, new_color, s3.duration, o)
    IN IF o = "ok" \/ CaughtByTypeClause(o)
       THEN IF cmd = "SETB" THEN setDriver(s4, "GV3", val) ELSE s4
       ELSE Raise(s4)

\* MultiZone.setManual.  SETZ moves the cursor and RR sets the duration;
\* both go on to write the zone's color as it is.
MultiZone_setManual(s, cmd, val, o) ==
    IF s.connected = 0 THEN s
    ELSE
    LET s1 == IF cmd = "SETZ"
              THEN [s EXCEPT !.current_zone = IF val > s.num_zones THEN 0 ELSE val]
              ELSE s
    IN
    IF NoZone(s1) THEN Raise(s1)
    ELSE
    LET new_color == IF cmd \in {"SETH", "SETS", "SETB", "CLITEMP"}
                     THEN [ZoneColor(s1) EXCEPT ![FieldOf(cmd)] = val]
                     ELSE ZoneColor(s1)
        s2 == IF cmd = "RR" THEN [s1 EXCEPT !.duration = val] ELSE s1
        s3 == [s2 EXCEPT !.color[ZoneIx(s2.current_zone) + 1] = new_color]
        s4 == zone_write(s3, new_color, s3.duration, o)
    IN IF o = "ok" \/ CaughtByTypeClause(o)
       THEN IF cmd = "SETB" THEN setDriver(s4, "GV3", val) ELSE s4
       ELSE Raise(s4)

\* MultiZone.setHSBKDZ.  An item assignment to None raises TypeError and
\* one beyond the list IndexError, after the flag is set.  The call that
\* follows hands the whole batch over as the color.
setHSBKDZ(s, q, o) ==
    LET s1 == IF ~s.pending
              THEN [s EXCEPT !.new_color = s.color, !.pending = TRUE]
              ELSE s
        zone == ZoneIx(q.z)
    IN
    IF zone + 1 > Len(s1.new_color) THEN Raise(s1)
    ELSE
    LET s2 == [s1 EXCEPT !.new_color[zone + 1] = q.color,
                         !.duration = IF q.d = NoValue THEN 0 ELSE q.d]
        s3 == IF q.z = 0 THEN set_color(s2, s2.new_color, s2.duration, o)
              ELSE set_zone_color(s2, zone, zone, s2.new_color, s2.duration, o)
    IN IF o = "ok" \/ CaughtByIOClause(o) THEN s3 ELSE Raise(s3)

\* MultiZone.set_effect taking the type codes of a tile chain
set_effect_upto2(s, effect_type, o) ==
    IF effect_type < 0 \/ effect_type > 2 THEN s
    ELSE LET s1 == Call(s, "set_multizone_effect", <<effect_type>>, o = "ok")
         IN IF o = "ok" \/ CaughtByTypeClause(o) THEN s1 ELSE Raise(s1)

\* MultiZone.set_effect
set_effect(s, effect_type, o) ==
    IF effect_type < 0 \/ effect_type > 1 THEN s
    ELSE LET s1 == Call(s, "set_multizone_effect", <<effect_type>>, o = "ok")
         IN IF o = "ok" \/ CaughtByTypeClause(o) THEN s1 ELSE Raise(s1)

\* what the hub sends to a strip
ZoneManualCmds == ManualCmds \cup {"SETZ"}
ZoneManualValues(cmd) ==
    IF cmd = "SETZ" THEN 0 .. MaxZones + 1 ELSE ManualValues(cmd)
EditColors == {<<5525, 65535, 3930, 3500>>, <<62978, 65535, 65535, 3500>>}
ZoneQueries ==
    {[color |-> c, z |-> z, d |-> d] :
        c \in EditColors, z \in 0 .. MaxZones + 1, d \in {NoValue, 1000}}
EffectTypes == {0, 1, 2}

\* One strip, the poll's fast refresh and the commands of
\* MultiZone.commands that work at the cursor (SpecMZ); one strip, the
\* refresh and the commands of the pending batch (SpecBatch).  Only
\* MultiZone.setHSBKDZ and MultiZone.apply assign new_color and pending.
mz_DON ==
    /\ ~IsBulb
    /\ \E val \in DonValues, oc, op \in WriteOutcomes :
           DevStep(MultiZone_setOn(Begin(dev, "DON"), "DON", val, oc, op))

mz_DFON ==
    /\ ~IsBulb
    /\ \E oc, op \in WriteOutcomes :
           DevStep(MultiZone_setOn(Begin(dev, "DFON"), "DFON", NoValue, oc, op))

mz_DIM ==
    /\ ~IsBulb
    /\ \E oc \in WriteOutcomes : DevStep(MultiZone_dim(Begin(dev, "DIM"), oc))

mz_BRT ==
    /\ ~IsBulb
    /\ \E oc, op \in WriteOutcomes :
           DevStep(MultiZone_brighten(Begin(dev, "BRT"), oc, op))

mz_FDUP ==
    /\ ~IsBulb
    /\ \E oc1, op, oc2 \in WriteOutcomes :
           DevStep(MultiZone_fade_up(Begin(dev, "FDUP"), oc1, op, oc2))

mz_FDDOWN ==
    /\ ~IsBulb
    /\ \E oc \in WriteOutcomes :
           DevStep(MultiZone_fade_down(Begin(dev, "FDDOWN"), oc))

mz_FDSTOP ==
    /\ ~IsBulb
    /\ \E rz \in ZoneReads, oc \in WriteOutcomes :
           DevStep(MultiZone_fade_stop(Begin(dev, "FDSTOP"), rz, oc))

APPLY ==
    /\ ~IsBulb
    /\ \E o \in Outcomes : DevStep(apply(Begin(dev, "APPLY"), o))

mz_SET_COLOR ==
    /\ ~IsBulb
    /\ \E id \in PresetIds, o \in Outcomes :
           DevStep(MultiZone_setColor(Begin(dev, "SET_COLOR"), id, o))

mz_SET_MANUAL ==
    /\ ~IsBulb
    /\ \E cmd \in ZoneManualCmds :
           \E val \in ZoneManualValues(cmd), o \in Outcomes :
               DevStep(MultiZone_setManual(Begin(dev, cmd), cmd, val, o))

SET_HSBKDZ ==
    /\ ~IsBulb
    /\ \E q \in ZoneQueries, o \in Outcomes :
           DevStep(setHSBKDZ(Begin(dev, "SET_HSBKDZ"), q, o))

EFFECT ==
    /\ ~IsBulb
    /\ \E effect_type \in EffectTypes, o \in Outcomes :
           DevStep(set_effect(Begin(dev, "EFFECT"), effect_type, o))

NextMZ ==
    \/ node_update
    \/ mz_DON
    \/ mz_DFON
    \/ DOF
    \/ mz_DIM
    \/ mz_BRT
    \/ mz_FDUP
    \/ mz_FDDOWN
    \/ mz_FDSTOP
    \/ mz_SET_COLOR
    \/ mz_SET_MANUAL
    \/ EFFECT
    \/ handler_return

InitMZ ==
    /\ devlist = FALSE /\ devfile = "none"
    /\ InitIdle
    /\ change_pon = TRUE /\ ignore_second_on = FALSE
    /\ dev = NewLight("multizone")
    /\ trail = <<>>

SpecMZ == InitMZ /\ [][NextMZ]_vars

NextBatch ==
    \/ node_update
    \/ DOF
    \/ SET_HSBKDZ
    \/ APPLY
    \/ handler_return

SpecBatch == InitMZ /\ [][NextBatch]_vars

\* A Bulb or a strip, the refresh, the fades, and what brings a device
\* to the states the fades look at: off, a zone under the cursor, a
\* brightness at a limit.
NextFade ==
    \/ node_update
    \/ DOF
    \/ FDUP
    \/ FDDOWN
    \/ mz_FDUP
    \/ mz_FDDOWN
    \/ mz_SET_MANUAL
    \/ handler_return

SpecFade == InitDev /\ [][NextFade]_vars

\* ----------------------------------------------------------------- Tile
\* A tile chain is a Light with an effect indicator; its palette
\* snapshots are kept by the Controller, by address and slot key.

\* what get_tilechain_colors() may return: the colors of the chain's tiles
Palettes ==
    {<<<<62978, 65535, 65535, 3500>>, <<5525, 65535, 3930, 3500>>>>,
     <<<<5525, 65535, 3930, 3500>>, <<62978, 65535, 65535, 3500>>>>}
PaletteReads ==
    {[ok |-> FALSE, v |-> <<>>]} \cup {[ok |-> TRUE, v |-> c] : c \in Palettes}
\* get_tile_effect()['type']: 0 off, 2 morph, 3 flame
EffectReads ==
    {[ok |-> FALSE, v |-> 0]} \cup {[ok |-> TRUE, v |-> t] : t \in {0, 2, 3}}
TileEffectTypes == {0, 1, 3}

\* Tile.update: the effect read, then Light.update
Tile_update(s, re, rc, rp) ==
    LET s1 == Call(s, "get_tile_effect", <<>>, re.ok)
        s2 == IF re.ok
              THEN [s1 EXCEPT !.effect = IF re.v > 0 THEN re.v - 1 ELSE 0]
              ELSE s1
    IN Light_update(s2, rc, rp)

\* Tile.save_state, the device side: the read
save_state(s, rt) == Call(s, "get_tilechain_colors", <<>>, rt.ok)

\* a store in which the slot is kept once for all addresses
save_colors_shared(store, address, v, rt) ==
    IF ~rt.ok THEN store
    ELSE [a \in DOMAIN store |-> [store[a] EXCEPT ![str(v)] = rt.v]]

\* Tile.save_state, the store side: nothing when the read failed, else
\* saved_tile_colors[address][str(value)] is the list read
save_colors(store, address, v, rt) ==
    IF ~rt.ok THEN store
    ELSE [store EXCEPT ![address][str(v)] = rt.v]

\* a recall that writes the colors over a running effect
recall_state_over_effect(s, store, address, v, oe, ow) ==
    LET color_array == store[address][str(v)]
    IN IF color_array = <<>> THEN s
       ELSE Call(s, "set_tilechain_colors", <<color_array, s.duration>>, ow = "ok")

\* Tile.recall_state: a running effect is stopped before the slot is
\* looked up; every exception is caught
recall_state(s, store, address, v, oe, ow) ==
    LET s1 == IF s.effect > 0
              THEN [Call(s, "set_tile_effect", <<0>>, oe = "ok") EXCEPT !.effect = 0]
              ELSE s
        color_array == store[address][str(v)]
    IN IF color_array = <<>> THEN s1
       ELSE Call(s1, "set_tilechain_colors", <<color_array, s1.duration>>, ow = "ok")

\* Tile.set_tile_effect: type 0 stays, 1 and 2 are sent as 2 and 3; the
\* indicator self.effect is left to the next refresh
set_tile_effect(s, effect_type, o) ==
    IF effect_type < 0 \/ effect_type > 2 THEN s
    ELSE LET sent == IF effect_type > 0 THEN effect_type + 1 ELSE effect_type
             s1 == Call(s, "set_tile_effect", <<sent>>, o = "ok")
         IN IF o = "ok" \/ CaughtByTypeClause(o) THEN s1 ELSE Raise(s1)

\* a step of the tile chain at T1 that may write the store
TileStep(s, store, saved) ==
    /\ dev.last = "idle"
    /\ dev' = s
    /\ cust_data' = store
    /\ lastSave' = saved
    /\ UNCHANGED <<ctlCore, pollVars, change_pon, ignore_second_on, dimpc, trail>>

Saved(address, v, rt) ==
    IF rt.ok THEN [lastSave EXCEPT ![address][v] = rt.v] ELSE lastSave

tile_update ==
    \E re \in EffectReads, rc \in ColorReads, rp \in PowerReads :
        DevStep(Tile_update(Begin(dev, "update"), re, rc, rp))

TILESV ==
    \E v \in Slots, rt \in PaletteReads :
        TileStep(save_state(Begin(dev, "TILESV"), rt),
                 save_colors(cust_data, T1, v, rt), Saved(T1, v, rt))

\* TILESV on the chain at T2, a node of its own
TILESV_other ==
    \E v \in Slots, rt \in PaletteReads :
        TileStep(dev, save_colors(cust_data, T2, v, rt), Saved(T2, v, rt))

TILERT ==
    \E v \in Slots, oe, ow \in WriteOutcomes :
        DevStep(recall_state(Begin(dev, "TILERT"), cust_data, T1, v, oe, ow))

tile_EFFECT ==
    \E effect_type \in TileEffectTypes, o \in Outcomes :
        DevStep(set_tile_effect(Begin(dev, "EFFECT"), effect_type, o))

NextTile ==
    \/ tile_update
    \/ TILESV
    \/ TILESV_other
    \/ TILERT
    \/ tile_EFFECT
    \/ DOF
    \/ handler_return

InitTile ==
    /\ devlist = FALSE /\ devfile = "none"
    /\ InitIdle
    /\ change_pon = TRUE /\ ignore_second_on = FALSE
    /\ dev = NewLight("tile")
    /\ trail = <<>>

SpecTile == InitTile /\ [][NextTile]_vars

\* ---------------------------------------------------------------- Group
\* A group node: the client's group object with its member list, the
\* member count, and the driver ST.  It keeps no color and no power.

\* the most members a group has
MaxMembers == 2

\* Group.__init__: devices is the length of self.lifxGroup.devices
NewGroup(devices) ==
    [topo |-> "group", devices |-> devices, numMembers |-> devices,
     drv |-> [d \in KeptDrivers |-> 0],
     last |-> "idle", calls |-> <<>>, reported |-> "none", raised |-> FALSE]

\* Group.update
Group_update(s) ==
    setDriver([s EXCEPT !.numMembers = s.devices], "ST", s.devices)

\* Group._power_on_change
Group_power_on_change(s, op) ==
    IF ~change_pon THEN s
    ELSE LET s1 == set_power(s, TRUE, op)
         IN Try(op, s1, s1, Raise(s1))

\* Group.setOn / Group.setOff: try, except (WorkflowException, IOError),
\* else a log line
Group_set_power(s, on, o) ==
    LET s1 == set_power(s, on, o)
    IN IF o = "ok" \/ CaughtByIOClause(o) THEN s1 ELSE Raise(s1)

\* a setter whose power-on policy does not wait for the primitive's
\* success
Group_set_always(s, prim, arg, o, op) ==
    LET s1 == Call(s, prim, arg, o = "ok")
    IN IF o = "ok" \/ CaughtByIOClause(o) THEN Group_power_on_change(s1, op)
       ELSE Raise(s1)

\* the body the setters share: the group primitive in a try, except
\* (WorkflowException, IOError), and _power_on_change in the else clause
Group_set(s, prim, arg, o, op) ==
    LET s1 == Call(s, prim, arg, o = "ok")
    IN IF o = "ok" THEN Group_power_on_change(s1, op)
       ELSE IF CaughtByIOClause(o) THEN s1 ELSE Raise(s1)

\* Group.setColor: COLORS[_color] of an unknown id raises KeyError before
\* the call
Group_setColor(s, id, o, op) ==
    IF ~ValidColor(id) THEN Raise(s)
    ELSE Group_set(s, "set_color", <<COLORS(id), 0>>, o, op)

\* the primitive of Group.setHue, setSat, setBri, setCTemp
GroupPrimitive(cmd) ==
    CASE cmd = "SETH" -> "set_hue" [] cmd = "SETS" -> "set_saturation"
      [] cmd = "SETB" -> "set_brightness" [] cmd = "CLITEMP" -> "set_colortemp"

\* Group.setHue, Group.setSat, Group.setBri, Group.setCTemp
Group_setField(s, cmd, val, o, op) ==
    Group_set(s, GroupPrimitive(cmd), <<val, 0>>, o, op)

\* Group.set_ir_brightness
Group_set_ir_brightness(s, val, o, op) ==
    Group_set(s, "set_infrared", <<val>>, o, op)

\* Group.setHSBKD: with a field of the color missing the local color is
\* never bound and naming it raises UnboundLocalError before the call
Group_setHSBKD(s, q, o, op) ==
    IF ~q.hsbk THEN Raise(s)
    ELSE Group_set(s, "set_color",
                   <<q.color, IF q.d THEN q.duration ELSE 0>>, o, op)

GroupStep(s) ==
    /\ dev.last = "idle"
    /\ dev.topo = "group"
    /\ dev' = s
    /\ UNCHANGED <<ctlVars, pollVars, change_pon, ignore_second_on, dimpc, trail, lastSave>>

\* Controller.poll, shortPoll, and QUERY: reportDrivers() sends ST as it is
group_update == GroupStep(Group_update(Begin(dev, "update")))
group_QUERY == GroupStep(Group_update(Begin(dev, "QUERY")))

group_DON ==
    \E cmd \in {"DON", "DFON"}, o \in WriteOutcomes :
        GroupStep(Group_set_power(Begin(dev, cmd), TRUE, o))

group_DOF ==
    \E cmd \in {"DOF", "DFOF"}, o \in WriteOutcomes :
        GroupStep(Group_set_power(Begin(dev, cmd), FALSE, o))

group_SET_COLOR ==
    \E id \in PresetIds, o, op \in WriteOutcomes :
        GroupStep(Group_setColor(Begin(dev, "SET_COLOR"), id, o, op))

group_SET_FIELD ==
    \E cmd \in ManualCmds \ {"RR"} : \E val \in ManualValues(cmd), o, op \in WriteOutcomes :
        GroupStep(Group_setField(Begin(dev, cmd), cmd, val, o, op))

group_SETIR ==
    \E val \in IrValues, o, op \in WriteOutcomes :
        GroupStep(Group_set_ir_brightness(Begin(dev, "SETIR"), val, o, op))

group_SET_HSBKD ==
    \E q \in HsbkdQueries, o, op \in WriteOutcomes :
        GroupStep(Group_setHSBKD(Begin(dev, "SET_HSBKD"), q, o, op))

NextGroup ==
    \/ group_update
    \/ group_QUERY
    \/ group_DON
    \/ group_DOF
    \/ group_SET_COLOR
    \/ group_SET_FIELD
    \/ group_SETIR
    \/ group_SET_HSBKD
    \/ handler_return

InitGroup ==
    /\ devlist = FALSE /\ devfile = "none"
    /\ InitIdle
    /\ change_pon \in BOOLEAN
    /\ ignore_second_on = FALSE
    /\ dev \in {NewGroup(n) : n \in 1 .. MaxMembers}
    /\ trail = <<>>

SpecGroup == InitGroup /\ [][NextGroup]_vars

\* ------------------------------------------------- the three topologies
\* A node of any of the three classes under either setting of the policy
\* flags.  A tile chain is refreshed by Tile.update, the others by the
\* update of their class; Light's handlers run on a tile chain as well.
AllTopologies == {"bulb", "multizone", "tile"}

InitAny ==
    /\ devlist = FALSE /\ devfile = "none"
    /\ InitIdle
    /\ change_pon \in BOOLEAN
    /\ ignore_second_on \in BOOLEAN
    /\ dev \in {NewLight(topo) : topo \in AllTopologies}
    /\ trail = <<>>

\* the commands that set a colour, a field or an effect
NextParam ==
    \/ dev.topo = "tile" /\ tile_update
    \/ dev.topo # "tile" /\ node_update
    \/ dev.topo = "tile" /\ tile_EFFECT
    \/ EFFECT
    \/ SET_COLOR
    \/ SET_MANUAL
    \/ SET_HSBKD
    \/ mz_SET_COLOR
    \/ mz_SET_MANUAL
    \/ DOF
    \/ handler_return

SpecParam == InitAny /\ [][NextParam]_vars

\* the commands that switch the device on and off
NextOn ==
    \/ dev.topo = "tile" /\ tile_update
    \/ dev.topo # "tile" /\ node_update
    \/ DON
    \/ DFON
    \/ mz_DON
    \/ mz_DFON
    \/ mz_SET_MANUAL
    \/ DOF
    \/ handler_return

SpecOn == InitAny /\ [][NextOn]_vars

\* -------------------------------------------------------- stopping a fade
\* FDSTOP finds the device wherever the fade has brought it: the reads it
\* can get include a brightness of BR_MIN.
AtMinimum == <<62978, 65535, 1310, 3500>>
StopReads == ColorReads \cup {[ok |-> TRUE, v |-> AtMinimum]}
StopZoneReads ==
    ZoneReads \cup
    {[ok |-> TRUE, v |-> [k \in 1 .. MaxZones |-> IF k = m THEN AtMinimum ELSE z]] :
        m \in 1 .. MaxZones, z \in ZoneColors}

stop_FDSTOP ==
    /\ IsBulb
    /\ \E rc \in StopReads, oc \in WriteOutcomes :
           DevStep(fade_stop(Begin(dev, "FDSTOP"), rc, oc))

stop_mz_FDSTOP ==
    /\ ~IsBulb
    /\ \E rz \in StopZoneReads, oc \in WriteOutcomes :
           DevStep(MultiZone_fade_stop(Begin(dev, "FDSTOP"), rz, oc))

NextStop ==
    \/ node_update
    \/ DOF
    \/ stop_FDSTOP
    \/ stop_mz_FDSTOP
    \/ mz_SET_MANUAL
    \/ handler_return

SpecStop == InitDev /\ [][NextStop]_vars

\* ------------------------------------------------ a strip's steps in a row
\* A strip running DIM and BRT one after the other at its cursor, with
\* the trail of the handlers and the mirror each found.
zseq_update ==
    \E rz \in ZoneReads, rp \in PowerReads :
        SeqStep("update", MultiZone_update(Begin(dev, "update"), rz, rp))

zseq_DIM ==
    \E oc \in WriteOutcomes : SeqStep("DIM", MultiZone_dim(Begin(dev, "DIM"), oc))

zseq_BRT ==
    \E oc, op \in WriteOutcomes :
        SeqStep("BRT", MultiZone_brighten(Begin(dev, "BRT"), oc, op))

zseq_DOF == \E op \in WriteOutcomes : SeqStep("DOF", setOff(Begin(dev, "DOF"), op))

zseq_SETZ ==
    \E val \in ZoneManualValues("SETZ"), o \in WriteOutcomes :
        SeqStep("SETZ", MultiZone_setManual(Begin(dev, "SETZ"), "SETZ", val, o))

NextZoneSeq ==
    \/ zseq_update
    \/ zseq_DIM
    \/ zseq_BRT
    \/ zseq_DOF
    \/ zseq_SETZ

SpecZoneSeq == InitMZ /\ [][NextZoneSeq]_vars

\* ------------------------------------------- a batch and the cursor edits
\* A strip with a pending batch on which the commands of the cursor and
\* the refresh go on.  The trail keeps, for each of the last handlers,
\* the flag it found and the list position it edits (0: none in
\* particular).
BatchStep(name, pos, s) ==
    /\ dev' = s
    /\ trail' = Newest(<<[cmd |-> name, pending |-> dev.pending, pos |-> pos]>>
                         \o trail)
    /\ UNCHANGED <<ctlVars, pollVars, change_pon, ignore_second_on, dimpc, lastSave>>

batch_update ==
    \E rz \in ZoneReads, rp \in PowerReads :
        BatchStep("update", 0, MultiZone_update(Begin(dev, "update"), rz, rp))

batch_SET_HSBKDZ ==
    \E q \in {e \in ZoneQueries : e.d = NoValue /\ e.color[1] = 5525},
       o \in WriteOutcomes :
        BatchStep("SET_HSBKDZ", ZoneIx(q.z) + 1,
                  setHSBKDZ(Begin(dev, "SET_HSBKDZ"), q, o))

batch_APPLY ==
    \E o \in WriteOutcomes : BatchStep("APPLY", 0, apply(Begin(dev, "APPLY"), o))

batch_SET_MANUAL ==
    \E cmd \in {"SETB"} : \E val \in ManualValues(cmd), o \in WriteOutcomes :
        BatchStep(cmd, ZoneIx(dev.current_zone) + 1,
                  MultiZone_setManual(Begin(dev, cmd), cmd, val, o))

batch_FDSTOP ==
    \E rz \in ZoneReads, oc \in WriteOutcomes :
        BatchStep("FDSTOP", 0, MultiZone_fade_stop(Begin(dev, "FDSTOP"), rz, oc))

NextEdits ==
    \/ batch_update
    \/ batch_SET_HSBKDZ
    \/ batch_APPLY
    \/ batch_SET_MANUAL
    \/ batch_FDSTOP

SpecEdits == InitMZ /\ [][NextEdits]_vars

\* ------------------------------------------------- DIM beside the poll
\* A Bulb whose DIM handler runs in the hub's command thread while the
\* poll's timer thread refreshes the same node.  Light.dim is taken one
\* statement that touches self.color at a time; Light.update stores
\* self.color once (line 333) and is taken whole.

\* colors the bulb may answer with: two hues
RaceColors == {<<62978, 65535, 65535, 3500>>, <<5525, 65535, 3930, 3500>>}
RaceReads ==
    {[ok |-> FALSE, v |-> <<>>]} \cup {[ok |-> TRUE, v |-> c] : c \in RaceColors}

RaceStep(s, d) ==
    /\ dev' = s
    /\ dimpc' = d
    /\ UNCHANGED <<ctlVars, pollVars, change_pon, ignore_second_on, trail, lastSave>>

\* Controller.poll, shortPoll: node.update(), at any point of the handler
race_update ==
    \E rc \in RaceReads, rp \in PowerReads :
        RaceStep(Light_update(Begin(dev, "update"), rc, rp),
                 IF dimpc.pc \in {"patch", "send"} /\ rc.ok
                 THEN [dimpc EXCEPT !.fresh = @ \cup {rc.v}]
                 ELSE dimpc)

\* Light.dim, lines 456-460: self.color[2] is read into new_bri
dim_read ==
    /\ dimpc.pc = "idle"
    /\ IF NoColor(dev) THEN TRUE ELSE InWindow(dev.color[3] - BR_INCREMENT)
    /\ IF NoColor(dev)
       THEN RaceStep(Raise(Begin(dev, "DIM")), [NoDim EXCEPT !.pc = "done"])
       ELSE LET new_bri == dev.color[3] - BR_INCREMENT
            IN RaceStep(dev, [pc |-> "patch",
                              new_bri |-> IF new_bri < BR_MIN THEN BR_MIN
                                          ELSE new_bri,
                              snap |-> dev.color, fresh |-> {}])

\* Light.dim, line 461: self.color[2] = new_bri, on the list self.color
\* names now
dim_patch ==
    /\ dimpc.pc = "patch"
    /\ RaceStep([dev EXCEPT !.color[3] = dimpc.new_bri],
                [dimpc EXCEPT !.pc = "send"])

\* Light.dim, lines 462-468: set_color(self.color, ...) and the drivers,
\* each from the list self.color names now
dim_send ==
    /\ dimpc.pc = "send"
    /\ \E oc \in WriteOutcomes :
          LET s1 == set_color(Begin(dev, "DIM"), dev.color, BRTDIM_INTERVAL, oc)
          IN RaceStep(Try(oc,
                          setDriver(setDriver(s1, "ST", bri_to_percent(s1.color[3])),
                                    "GV3", s1.color[3]),
                          s1, Raise(s1)),
                      [dimpc EXCEPT !.pc = "done"])

\* the handler has returned
dim_return ==
    /\ dimpc.pc = "done"
    /\ RaceStep(dev, NoDim)

NextRace ==
    \/ race_update
    \/ dim_read
    \/ dim_patch
    \/ dim_send
    \/ dim_return

SpecRace == InitSeq /\ [][NextRace]_vars

\* ------------------------------------------------ the connectivity flag
\* A node of any class, its refreshes, QUERY, and the strip's batch: what
\* sets self.connected.

\* the fast refresh of the node's class
FastRefresh(s, re, rc, rp) ==
    IF s.topo = "tile" THEN Tile_update(s, re, rc, rp) ELSE update(s, rc, rp)

\* Light.query on a tile chain: self.update() is Tile.update
tile_QUERY ==
    /\ dev.topo = "tile"
    /\ \E re \in EffectReads, rc \in ColorReads, rp \in PowerReads, ru \in UptimeReads :
          \E ri \in InfraredReads(ru), ow \in WifiOutcomes :
              LET s1 == Tile_update(Begin(dev, "QUERY"), re, rc, rp)
              IN DevStep(IF s1.raised THEN s1
                         ELSE Light_long_update(s1, ru, ri, ow))

NextFlag ==
    \/ dev.topo = "tile" /\ tile_update
    \/ dev.topo # "tile" /\ node_update
    \/ dev.topo # "tile" /\ QUERY
    \/ tile_QUERY
    \/ node_long_update
    \/ SET_HSBKDZ
    \/ APPLY
    \/ handler_return

InitFlag ==
    /\ devlist = FALSE /\ devfile = "none"
    /\ InitIdle
    /\ change_pon = TRUE /\ ignore_second_on = FALSE
    /\ dev \in {NewLight(topo) : topo \in AllTopologies}
    /\ trail = <<>>

SpecFlag == InitFlag /\ [][NextFlag]_vars

\* ------------------------------------------------------------ claims
\* C1: at most one discovery run is ever active, for any interleaving of
\* discover() calls.  Two calls that both pass the check of lines 118-121
\* before either has started its thread start two threads.
C1_AtMostOneDiscovery == Cardinality(AliveThreads) <= 1

C3_PollSkipsDuringDiscovery == pollSawAlive => pollResult = "skipped"

\* C8: every sweep that is not skipped refreshes every registered node,
\* whatever the refreshes of the nodes before it raised.  (Sweeps during
\* which the registry grew are left out: they are not what the claim is
\* about.)
C8_SweepVisitsAll ==
    (pollpc = "return" /\ pollResult # "skipped" /\ ~pollResized) =>
        pollVisited = {pollSnap[k] : k \in 1 .. Len(pollSnap)}

\* C10: the registry is append-only with unique addresses: no address ever
\* has a second node object stored in place of the first.
C10_RegistryUnique == \A a \in Addrs : nodes[a] <= 1

\* ------------------------------------------------------ claims, devices
RefreshNames == {"update", "long_update", "QUERY"}

CommandNames ==
    {"DON", "DOF", "DFON", "DFOF", "DIM", "BRT", "FDUP", "FDDOWN", "FDSTOP",
     "SET_COLOR", "SETH", "SETS", "SETB", "CLITEMP", "RR", "SET_HSBKD",
     "SETIR", "WAVEFORM"}

\* the handler's first call was a read of the core color, and it failed
ColorReadFailed(s) ==
    /\ Len(s.calls) > 0
    /\ s.calls[1].op \in {"get_color", "get_color_zones"}
    /\ ~s.calls[1].ok

\* the calls of the handler's last refresh: those of long_update when it
\* ran (it starts with get_uptime), else all
LastRefreshFrom(s) ==
    IF \E i \in 1 .. Len(s.calls) : s.calls[i].op = "get_uptime"
    THEN CHOOSE i \in 1 .. Len(s.calls) : s.calls[i].op = "get_uptime"
    ELSE 1

\* a read step of the last refresh completed; the uptime step is
\* get_uptime() and supports_infrared() together
SomeReadDone(s) ==
    \E i \in LastRefreshFrom(s) .. Len(s.calls) :
        s.calls[i].ok /\ s.calls[i].op # "get_uptime"

\* C4, as claimed: the connectivity flag is 0 whenever the most recent
\* read of the core color failed, whatever reads succeed after it.
C4_ZeroAfterFailedColorRead ==
    (dev.last \in {"update", "QUERY", "FDSTOP"} /\ ColorReadFailed(dev))
        => dev.connected = 0

\* C4, amended: a refresh leaves the flag at 1 if one of its read steps
\* completed and at 0 if none did, and no command changes the flag.
C4_FlagFollowsLastRefresh ==
    [][/\ dev'.last \in RefreshNames =>
            dev'.connected = (IF SomeReadDone(dev') THEN 1 ELSE 0)
       /\ dev'.last \in CommandNames => dev'.connected = dev.connected]_vars

\* a QUERY whose color read failed and whose slow refresh reached the
\* device
C4_Witness ==
    /\ dev.last = "QUERY"
    /\ ColorReadFailed(dev)
    /\ dev.connected = 1

\* C5: while the connectivity flag is 0 a command other than QUERY makes
\* no device call.  Only setColor and setManual look at the flag.
C5_DisconnectedRefuses ==
    (dev.last \in CommandNames /\ dev.connected = 0) => dev.calls = <<>>

\* the position of the power read among the handler's calls, 0 if none
\* returned
PowerReadAt(s) ==
    IF \E i \in 1 .. Len(s.calls) : s.calls[i].op = "get_power" /\ s.calls[i].ok
    THEN CHOOSE i \in 1 .. Len(s.calls) : s.calls[i].op = "get_power"
    ELSE 0

\* C6: a fast refresh (a poll or the one of QUERY) reports DON or DOF
\* exactly when the power it read differs from the mirror, and the mirror
\* then holds the power read; without a power read it reports nothing
\* and the mirror stays.
C6_PowerChangeReportedOnce ==
    [][dev'.last \in {"update", "QUERY"} =>
          IF PowerReadAt(dev') = 0
          THEN dev'.reported = "none" /\ dev'.power = dev.power
          ELSE LET power_now == dev'.calls[PowerReadAt(dev')].arg[1] = 65535
               IN /\ dev'.power = power_now
                  /\ dev'.reported = IF power_now = dev.power THEN "none"
                                     ELSE IF power_now THEN "DON" ELSE "DOF"]_vars

\* a poll that found the device switched on behind the mirror
C6_Witness ==
    /\ dev.last = "update"
    /\ PowerReadAt(dev) # 0
    /\ dev.reported = "DON"
    /\ dev.power

\* C7: the brightness of every color a brightness command writes is in
\* [BR_MIN, BR_MAX].  SETB and SET_HSBKD write the value they are given.
C7_BrightnessClamped ==
    dev.last \in {"DON", "DFON", "DIM", "BRT", "FDUP", "FDDOWN", "SETB", "SET_HSBKD"}
        => \A i \in 1 .. Len(dev.calls) :
               (dev.calls[i].op = "set_color" /\ Len(dev.calls[i].arg[1]) = 4)
                   => /\ dev.calls[i].arg[1][3] >= BR_MIN
                      /\ dev.calls[i].arg[1][3] <= BR_MAX

\* some call of the handler was op
Called(s, op) == \E i \in 1 .. Len(s.calls) : s.calls[i].op = op

\* C9, as claimed: after a failed color read the fast refresh still reads
\* the power, and after a failed uptime read the slow refresh still reads
\* infrared and signal strength.
C9_AllReadsAttempted ==
    /\ (dev.last = "update" /\ ColorReadFailed(dev)) => Called(dev, "get_power")
    /\ (dev.last = "long_update" /\ ~dev.calls[1].ok)
           => Called(dev, "get_infrared") /\ Called(dev, "get_wifi_signal_mw")

\* C9, amended: a Bulb's fast refresh ends at a failed color read, a
\* MultiZone's goes on to the power read; a slow refresh always ends with
\* the signal strength read, and after a failed uptime read it reads
\* infrared exactly when ir_support was already set.
C9_ReadsAfterFailure ==
    /\ (dev.last = "update" /\ ColorReadFailed(dev)) =>
           IF dev.topo = "bulb" THEN Len(dev.calls) = 1
           ELSE Len(dev.calls) = 2 /\ dev.calls[2].op = "get_power"
    /\ dev.last = "long_update" =>
           /\ dev.calls[Len(dev.calls)].op = "get_wifi_signal_mw"
           /\ ~dev.calls[1].ok => (Called(dev, "get_infrared") <=> dev.ir_support)

\* a Bulb poll whose color read failed
C9_Witness ==
    /\ dev.last = "update"
    /\ dev.topo = "bulb"
    /\ ColorReadFailed(dev)

\* ------------------------------------------------- claims, C11 onwards
\* the brightness of the last color the handler wrote, -1 if it wrote none
LastWritten(s) ==
    IF \E i \in 1 .. Len(s.calls) : s.calls[i].op = "set_color"
    THEN LET i == CHOOSE i \in 1 .. Len(s.calls) :
                      /\ s.calls[i].op = "set_color"
                      /\ \A j \in i + 1 .. Len(s.calls) : s.calls[j].op # "set_color"
         IN s.calls[i].arg[1][3]
    ELSE -1

\* the handler before the last one was first and the last one second
Ran(first, second) ==
    /\ Len(trail) >= 2
    /\ trail[1].cmd = second
    /\ trail[2].cmd = first
    /\ dev.last = second

\* C12: on a powered-on Bulb with brightness b, DIM then BRT brings the
\* mirror and the brightness last written back to b when
\* BR_MIN <= b - BR_INCREMENT and b <= BR_MAX, and so does BRT then DIM
\* when BR_MIN <= b and b + BR_INCREMENT <= BR_MAX.
C12_StepRoundTrip ==
    /\ (/\ Ran("DIM", "BRT")
        /\ trail[2].power /\ Len(trail[2].color) = 4
        /\ trail[2].color[3] - BR_INCREMENT >= BR_MIN
        /\ trail[2].color[3] <= BR_MAX)
           => /\ dev.color[3] = trail[2].color[3]
              /\ LastWritten(dev) = trail[2].color[3]
    /\ (/\ Ran("BRT", "DIM")
        /\ trail[2].power /\ Len(trail[2].color) = 4
        /\ trail[2].color[3] >= BR_MIN
        /\ trail[2].color[3] + BR_INCREMENT <= BR_MAX)
           => /\ dev.color[3] = trail[2].color[3]
              /\ LastWritten(dev) = trail[2].color[3]

\* DIM then BRT from brightness 3930, through BR_MIN and back
C12_Witness ==
    /\ Ran("DIM", "BRT")
    /\ trail[2].power
    /\ trail[2].color = <<62978, 65535, 3930, 3500>>
    /\ trail[1].color = <<62978, 65535, 1310, 3500>>
    /\ dev.color = <<62978, 65535, 3930, 3500>>

\* C16: SET_COLOR on a connected Bulb whose color write succeeds leaves
\* the stored color equal to the preset written, and with the power-on
\* policy enabled and the device off before, a set_power call follows.
\* Light.setColor sets the drivers GV1, GV2, GV3 and CLITEMP to the preset
\* and never assigns self.color.
C16_PresetStored ==
    [][(/\ dev.last = "idle" /\ dev'.last = "SET_COLOR"
        /\ dev.connected = 1
        /\ Len(dev'.calls) >= 1
        /\ dev'.calls[1].op = "set_color" /\ dev'.calls[1].ok)
           => /\ dev'.color = dev'.calls[1].arg[1]
              /\ (change_pon /\ ~dev.power)
                     => /\ Len(dev'.calls) = 2
                        /\ dev'.calls[2].op = "set_power"]_vars

C18_DiscoverWhileRunningNoOp ==
    [][\A c \in Callers :
          (discover(c) /\ discovery_thread # 0 /\ IsAlive(discovery_thread))
              => UNCHANGED <<nodes, order, discovery_thread, lifxLan,
                             bulbs_found, gv0, threads>>]_vars

\* the fields of the object that mirror the device
Mirror(s) ==
    <<s.color, s.power, s.connected, s.duration, s.num_zones, s.current_zone,
      s.pending, s.new_color>>

\* the brightness a fade looks at: the Bulb's, or that of the zone under
\* the strip's cursor
HasBri(s) == IF s.topo = "multizone" THEN ~NoZone(s) ELSE ~NoColor(s)
Bri(s) == IF s.topo = "multizone" THEN ZoneColor(s)[3] ELSE s.color[3]

\* a handler that made no device call and left the mirror as it was
Refused(s, t) == t.calls = <<>> /\ Mirror(t) = Mirror(s)

\* C11, as claimed: FDDOWN on a device that is off or at or below BR_MIN,
\* and FDUP on a device at BR_MAX, make no device call and leave the
\* mirror as it was.
C11_FadeRefusals ==
    [][/\ (/\ dev.last = "idle" /\ dev'.last = "FDDOWN"
           /\ (~dev.power \/ (HasBri(dev) /\ Bri(dev) <= BR_MIN)))
              => Refused(dev, dev')
       /\ (/\ dev.last = "idle" /\ dev'.last = "FDUP"
           /\ HasBri(dev) /\ Bri(dev) = BR_MAX)
              => Refused(dev, dev')]_vars

\* C11, amended: FDDOWN refuses as claimed; FDUP refuses at BR_MAX when
\* the device is on.  On a device that is off FDUP first writes the color
\* with brightness BR_MIN and turns the power on, whatever the brightness;
\* the Bulb then fades from BR_MIN, the strip tests the mirror it has not
\* changed and stops at BR_MAX after these writes.
C11_FadeRefusalsWhenOn ==
    [][/\ (/\ dev.last = "idle" /\ dev'.last = "FDDOWN"
           /\ (~dev.power \/ (HasBri(dev) /\ Bri(dev) <= BR_MIN)))
              => Refused(dev, dev')
       /\ (/\ dev.last = "idle" /\ dev'.last = "FDUP"
           /\ dev.power /\ HasBri(dev) /\ Bri(dev) = BR_MAX)
              => Refused(dev, dev')
       /\ (/\ dev.last = "idle" /\ dev'.last = "FDUP"
           /\ ~dev.power /\ HasBri(dev))
              => /\ Len(dev'.calls) >= 1
                 /\ dev'.calls[1].op \in {"set_color", "set_zone_color"}
                 /\ dev'.calls[1].ok =>
                       /\ Len(dev'.calls) >= 2
                       /\ dev'.calls[2] = [op |-> "set_power", arg |-> <<TRUE>>,
                                           ok |-> dev'.power]
                 /\ (dev.topo = "multizone" /\ Bri(dev) = BR_MAX)
                       => (Len(dev'.calls) <= 2 /\ dev'.color = dev.color)]_vars

\* C11, witness: FDUP on a strip that was off with the zone at BR_MAX has
\* written the color and the power and then stopped at the test.
C11_Witness ==
    /\ dev.topo = "multizone" /\ dev.last = "FDUP"
    /\ HasBri(dev) /\ Bri(dev) = BR_MAX
    /\ Len(dev.calls) = 2 /\ dev.calls[2].op = "set_power" /\ dev.calls[2].ok
    /\ dev.power

FieldSetters == {"SETH", "SETS", "SETB", "CLITEMP"}

\* C15: on a connected strip whose cursor is on zone z, 1 <= z <=
\* num_zones, a single-field setter rewrites mirror entry z - 1 (kept at
\* position z here) in the field it names and nowhere else, leaves every
\* other entry as it was, and makes one device call: set_zone_color for
\* the zone z - 1 alone, with the entry it has just stored.
C15_SetterWritesCursorZone ==
    [][(/\ dev.last = "idle" /\ dev'.last \in FieldSetters
        /\ dev.topo = "multizone" /\ dev.connected = 1
        /\ dev.current_zone >= 1 /\ dev.current_zone <= dev.num_zones)
           => LET z == dev.current_zone
              IN /\ Len(dev.color) >= z
                 /\ Len(dev'.color) = Len(dev.color)
                 /\ \A k \in 1 .. Len(dev.color) :
                       k # z => dev'.color[k] = dev.color[k]
                 /\ \A f \in 1 .. 4 :
                       f # FieldOf(dev'.last) => dev'.color[z][f] = dev.color[z][f]
                 /\ dev'.current_zone = z
                 /\ Len(dev'.calls) = 1
                 /\ dev'.calls[1].op = "set_zone_color"
                 /\ dev'.calls[1].arg = <<z - 1, z - 1, dev'.color[z], dev.duration>>
      ]_vars

\* C15, witness: SETB 0 with the cursor on the second zone
C15_Witness ==
    /\ dev.topo = "multizone" /\ dev.last = "SETB"
    /\ dev.current_zone = 2 /\ Len(dev.color) >= 2
    /\ dev.color[2][3] = 0 /\ dev.color[1][3] = 65535
    /\ Len(dev.calls) = 1
    /\ dev.calls[1].op = "set_zone_color"
    /\ dev.calls[1].arg[1] = 1 /\ dev.calls[1].arg[2] = 1
    /\ dev.calls[1].arg[3] = dev.color[2]

\* C19: a SET_HSBKDZ for a zone of the strip (Z = 0 and Z = 1 both name
\* list index 0) leaves the batch equal to the batch before it, or to the
\* mirror when none was pending, with that zone replaced by the colour of
\* the command, and the pending flag set: so k edits give the snapshot
\* with the k edits applied in order.  After an APPLY whose write raised
\* past its except clause pending is still set and new_color is None.
C19_EditsExtendBatch ==
    [][\A q \in ZoneQueries, o \in Outcomes :
          (/\ dev.last = "idle"
           /\ dev' = setHSBKDZ(Begin(dev, "SET_HSBKDZ"), q, o)
           /\ ZoneIx(q.z) < dev.num_zones)
              => LET base == IF dev.pending THEN dev.new_color ELSE dev.color
                 IN /\ ZoneIx(q.z) + 1 <= Len(base)
                    /\ dev'.pending
                    /\ dev'.new_color = [base EXCEPT ![ZoneIx(q.z) + 1] = q.color]
      ]_vars

\* C20: an APPLY with a pending batch makes one call, set_zone_colors with
\* the batch, and leaves the mirror equal to the batch, the flag clear and
\* new_color None; a SET_HSBKDZ makes no device call.  setHSBKDZ ends with
\* set_color or set_zone_color, and apply clears the flag after its try.
C20_ApplyCommitsBatch ==
    [][/\ (/\ dev.last = "idle" /\ dev'.last = "APPLY"
           /\ dev.pending /\ dev.new_color # <<>>)
              => /\ Len(dev'.calls) = 1
                 /\ dev'.calls[1].op = "set_zone_colors"
                 /\ dev'.calls[1].arg[1] = dev.new_color
                 /\ dev'.color = dev.new_color
                 /\ ~dev'.pending
                 /\ dev'.new_color = <<>>
       /\ (dev.last = "idle" /\ dev'.last = "SET_HSBKDZ")
              => dev'.calls = <<>>]_vars

\* C13: a TILERT of slot v on a chain for which a TILESV of slot v has
\* returned writes the colors the last such TILESV read: one
\* set_tilechain_colors call with them, whatever was saved to other slots
\* or by other chains and whatever ran in between.
C13_RecallWritesSaved ==
    [][\A v \in Slots, oe, ow \in WriteOutcomes :
          (/\ dev.last = "idle"
           /\ dev' = recall_state(Begin(dev, "TILERT"), cust_data, T1, v, oe, ow)
           /\ lastSave[T1][v] # <<>>)
              => LET n == Len(dev'.calls)
                 IN /\ n >= 1
                    /\ dev'.calls[n].op = "set_tilechain_colors"
                    /\ dev'.calls[n].arg[1] = lastSave[T1][v]
                    /\ \A i \in 1 .. n - 1 :
                          dev'.calls[i].op # "set_tilechain_colors"
      ]_vars

\* C13, witness: both chains have saved slot 1, with different colors, the
\* first has saved other colors to slot 2, and its TILERT has written a
\* saved palette.
C13_Witness ==
    /\ dev.last = "TILERT"
    /\ lastSave[T1][1] # <<>> /\ lastSave[T2][1] # <<>>
    /\ lastSave[T1][2] # <<>>
    /\ lastSave[T1][1] # lastSave[T2][1]
    /\ lastSave[T1][1] # lastSave[T1][2]
    /\ Len(dev.calls) >= 1
    /\ dev.calls[Len(dev.calls)].op = "set_tilechain_colors"
    /\ dev.calls[Len(dev.calls)].arg[1] = lastSave[T1][1]

\* C14: a TILERT of a slot with nothing saved for the chain makes no
\* device call.  With the effect indicator above 0 recall_state calls
\* set_tile_effect before it looks the slot up.
C14_NoSnapshotNoWrite ==
    [][\A v \in Slots, oe, ow \in WriteOutcomes :
          (/\ dev.last = "idle"
           /\ dev' = recall_state(Begin(dev, "TILERT"), cust_data, T1, v, oe, ow)
           /\ cust_data[T1][str(v)] = <<>>)
              => dev'.calls = <<>>
      ]_vars

\* ------------------------------------------------- claims, C21 onwards
\* the operations that write to the device
WriteOps ==
    {"set_color", "set_power", "set_zone_color", "set_zone_colors",
     "set_infrared", "set_waveform", "set_multizone_effect",
     "set_tile_effect", "set_tilechain_colors"}

\* a write of the handler did not return
WriteFailed(s) ==
    \E i \in 1 .. Len(s.calls) : s.calls[i].op \in WriteOps /\ ~s.calls[i].ok

\* a write that did not return was made again by the same handler
Retried(s) ==
    \E i, j \in 1 .. Len(s.calls) :
        /\ i < j /\ ~s.calls[i].ok
        /\ s.calls[i].op \in WriteOps
        /\ s.calls[j].op = s.calls[i].op /\ s.calls[j].arg = s.calls[i].arg

\* C21: a command whose device write fails leaves the mirror (color or
\* zone array, power, default duration) as it was before the command, and
\* does not make the write again.  dim, brighten, the fades, setOn,
\* setManual and setHSBKD assign the mirror before the write and do not
\* take the assignment back.
C21_FailedWriteNoOp ==
    [][(/\ dev.last = "idle"
        /\ dev'.last \in {"DON", "DIM", "BRT", "FDUP", "FDDOWN", "SETH", "SETS",
                          "SETB", "CLITEMP", "RR", "SET_HSBKD", "APPLY"}
        /\ WriteFailed(dev'))
           => /\ dev'.color = dev.color
              /\ dev'.power = dev.power
              /\ dev'.duration = dev.duration
              /\ ~Retried(dev')]_vars

\* what a handler that was refused leaves: the object as it was, no call
\* made, no command reported
Untouched(s, t) ==
    /\ t.calls = <<>> /\ t.reported = "none"
    /\ [t EXCEPT !.last = "idle", !.raised = FALSE] = s

\* C22: a command with an invalid parameter makes no device call and
\* leaves the mirror, the effect indicator and the drivers as they were:
\* EFFECT on a strip with a type outside 0..1, EFFECT on a tile chain with
\* a type outside 0..2, SET_COLOR with a preset id outside 0..11 on any of
\* the three.  (The unknown id ends setColor with the KeyError of
\* COLORS[_color], raised before the call.)
C22_InvalidRejected ==
    [][dev.last = "idle" =>
        /\ \A effect_type \in EffectTypes, o \in Outcomes :
              (/\ dev.topo = "multizone" /\ effect_type \notin 0 .. 1
               /\ dev' = set_effect(Begin(dev, "EFFECT"), effect_type, o))
                  => Untouched(dev, dev')
        /\ \A effect_type \in TileEffectTypes, o \in Outcomes :
              (/\ dev.topo = "tile" /\ effect_type \notin 0 .. 2
               /\ dev' = set_tile_effect(Begin(dev, "EFFECT"), effect_type, o))
                  => Untouched(dev, dev')
        /\ \A id \in PresetIds, oc, op \in WriteOutcomes :
              (/\ IsBulb /\ ~ValidColor(id)
               /\ dev' = setColor(Begin(dev, "SET_COLOR"), id, oc, op))
                  => Untouched(dev, dev')
        /\ \A id \in PresetIds, o \in Outcomes :
              (/\ ~IsBulb /\ ~ValidColor(id)
               /\ dev' = MultiZone_setColor(Begin(dev, "SET_COLOR"), id, o))
                  => Untouched(dev, dev')
      ]_vars

\* C22, witness: an EFFECT with a type that is not accepted has returned
\* on a strip that is on and has its zones read.
C22_Witness ==
    /\ dev.topo = "multizone" /\ dev.last = "EFFECT"
    /\ dev.calls = <<>>
    /\ dev.power /\ dev.num_zones > 0

\* the handler of DON and DFON of the node's class
setOn_of(s, cmd, val, oc, op) ==
    IF s.topo = "multizone" THEN MultiZone_setOn(s, cmd, val, oc, op)
    ELSE setOn(s, cmd, val, oc, op)

\* C23: with ignore_second_on set, a DON without a value on a device whose
\* power mirror is on makes no device call and changes nothing, on a Bulb,
\* a strip and a tile chain; with the flag clear and the brightness below
\* BR_MAX its first call writes the color with brightness BR_MAX and the
\* default duration.  MultiZone.setOn does not look at the flag.
C23_RedundantOnIgnored ==
    [][\A oc, op \in WriteOutcomes :
          (/\ dev.last = "idle" /\ dev.power
           /\ dev' = setOn_of(Begin(dev, "DON"), "DON", NoValue, oc, op))
              => IF ignore_second_on THEN Untouched(dev, dev')
                 ELSE (HasBri(dev) /\ Bri(dev) # BR_MAX) =>
                         /\ Len(dev'.calls) >= 1
                         /\ dev'.calls[1].op \in {"set_color", "set_zone_color"}
                         /\ LET a == dev'.calls[1].arg
                            IN /\ a[Len(a)] = dev.duration
                               /\ a[Len(a) - 1][3] = BR_MAX
      ]_vars

\* the commands of a group that run the power-on policy
GroupSetters == {"SET_COLOR", "SETH", "SETS", "SETB", "CLITEMP", "SETIR", "SET_HSBKD"}

JustRead(s) ==
    IF s.topo = "multizone" THEN ZoneColor(s) ELSE s.color

\* C25: FDSTOP on a device that is off makes no device call.  On a device
\* that is on its first call reads the color (the zones, on a strip); when
\* the read returns a color whose brightness is BR_MIN or BR_MAX nothing
\* is written, and otherwise the one call that follows writes the color
\* just read (on a strip: that of the zone under the cursor), with
\* transition time 0.
C25_FadeStopRewrites ==
    [][(dev.last = "idle" /\ dev'.last = "FDSTOP") =>
          IF ~dev.power THEN dev'.calls = <<>>
          ELSE /\ Len(dev'.calls) >= 1
               /\ dev'.calls[1].op \in {"get_color", "get_color_zones"}
               /\ (dev'.calls[1].ok /\ HasBri(dev')) =>
                     IF Bri(dev') \in {BR_MIN, BR_MAX}
                     THEN Len(dev'.calls) = 1
                     ELSE /\ Len(dev'.calls) = 2
                          /\ dev'.calls[2].op \in {"set_color", "set_zone_color"}
                          /\ LET a == dev'.calls[2].arg
                             IN /\ a[Len(a)] = 0
                                /\ a[Len(a) - 1] = JustRead(dev')
      ]_vars

\* C25, witness: an FDSTOP on a strip that is on, with the cursor on the
\* second zone, has read the zones and written that zone's color back.
C25_Witness ==
    /\ dev.topo = "multizone" /\ dev.last = "FDSTOP"
    /\ dev.current_zone = 2
    /\ Len(dev.calls) = 2
    /\ dev.calls[1].op = "get_color_zones" /\ dev.calls[1].ok
    /\ dev.calls[2].op = "set_zone_color"
    /\ dev.calls[2].arg[3] = dev.color[2]
    /\ dev.calls[2].arg[4] = 0

\* the commands of a strip that work at the cursor
ZoneCommands ==
    {"DON", "DFON", "DIM", "BRT", "FDUP", "FDDOWN", "FDSTOP", "SET_COLOR"}
        \cup FieldSetters

ColorWrites == {"set_color", "set_zone_color", "set_zone_colors"}

\* C26: every color write a zone-targeted command makes on a strip is
\* set_color (the whole device) when the cursor is 0, and set_zone_color
\* with start = end = cursor - 1 when it is not.
C26_WritesAtCursor ==
    [][(/\ dev.last = "idle" /\ dev.topo = "multizone"
        /\ dev'.last \in ZoneCommands)
           => /\ dev'.current_zone = dev.current_zone
              /\ \A i \in 1 .. Len(dev'.calls) :
                    dev'.calls[i].op \in ColorWrites =>
                        IF dev.current_zone = 0
                        THEN dev'.calls[i].op = "set_color"
                        ELSE /\ dev'.calls[i].op = "set_zone_color"
                             /\ dev'.calls[i].arg[1] = dev.current_zone - 1
                             /\ dev'.calls[i].arg[2] = dev.current_zone - 1
      ]_vars

\* C26, witness: an FDUP on a strip that was off, cursor on the second
\* zone, has made its two color writes to that zone.
C26_Witness ==
    /\ dev.topo = "multizone" /\ dev.last = "FDUP"
    /\ dev.current_zone = 2
    /\ Len(dev.calls) = 3
    /\ dev.calls[1].op = "set_zone_color" /\ dev.calls[1].arg[1] = 1
    /\ dev.calls[3].op = "set_zone_color" /\ dev.calls[3].arg[2] = 1

\* C27: a TILERT on a tile chain whose effect indicator is above 0 first
\* calls set_tile_effect with type 0, writes the saved colors only after
\* it, and leaves the indicator at 0; with the indicator at 0 it makes no
\* set_tile_effect call.
C27_RecallStopsEffect ==
    [][(dev.last = "idle" /\ dev.topo = "tile" /\ dev'.last = "TILERT") =>
          /\ dev'.effect = 0
          /\ IF dev.effect > 0
             THEN /\ Len(dev'.calls) >= 1
                  /\ dev'.calls[1].op = "set_tile_effect"
                  /\ dev'.calls[1].arg = <<0>>
                  /\ \A i \in 2 .. Len(dev'.calls) :
                        dev'.calls[i].op = "set_tilechain_colors"
             ELSE \A i \in 1 .. Len(dev'.calls) :
                        dev'.calls[i].op # "set_tile_effect"
      ]_vars

\* C27, witness: a TILERT has stopped the effect and then written the
\* colors saved in its slot.
C27_Witness ==
    /\ dev.topo = "tile" /\ dev.last = "TILERT"
    /\ dev.effect = 0
    /\ Len(dev.calls) = 2
    /\ dev.calls[1].op = "set_tile_effect" /\ dev.calls[1].ok
    /\ dev.calls[2].op = "set_tilechain_colors"

\* the commands after which the power-on policy is to run
PolicyCommands == {"SET_COLOR", "SETH", "SETS", "SETB", "CLITEMP", "RR", "SET_HSBKD"}

\* the handler's calls of set_power
PowerWrites(s) == {i \in 1 .. Len(s.calls) : s.calls[i].op = "set_power"}

\* C28: a color or field command that runs to its end on a connected
\* device makes a set_power(True) call exactly when change_pon is set and
\* the power mirror is off, and the mirror is on afterwards exactly when
\* it was on before or that call returned; on a Bulb, a strip and a tile
\* chain.  MultiZone.setColor and MultiZone.setManual do not call
\* _power_on_change.
C28_PowerOnPolicy ==
    [][(/\ dev.last = "idle" /\ dev'.last \in PolicyCommands
        /\ dev.topo \in AllTopologies
        /\ dev.connected = 1 /\ ~dev'.raised)
           => /\ (PowerWrites(dev') # {}) <=> (change_pon /\ ~dev.power)
              /\ \A i \in PowerWrites(dev') : dev'.calls[i].arg = <<TRUE>>
              /\ Cardinality(PowerWrites(dev')) <= 1
              /\ dev'.power <=>
                    (dev.power \/ \E i \in PowerWrites(dev') : dev'.calls[i].ok)
      ]_vars

\* C29: a Group node is registered only with a membership that is not
\* empty, by manual and by automatic discovery.  Manual discovery leaves
\* out the members it cannot find and passes over a group with none left;
\* automatic discovery registers Group(..., glabel) whatever
\* get_devices_by_group(label) returned.
C29_NoEmptyGroup == getNode(G1) => grpMembers > 0

\* C30: after a DFON whose writes all returned the device is on, the
\* brightness in the mirror (the Bulb's, or that of the zone under the
\* strip's cursor) is BR_MAX, and every color write the DFON made had
\* transition time 0.  MultiZone.setOn writes a copy of the zone's color
\* and leaves self.color as it was.
C30_ForceOnFull ==
    [][(/\ dev.last = "idle" /\ dev'.last = "DFON"
        /\ dev.topo \in AllTopologies
        /\ ~dev'.raised
        /\ \A i \in 1 .. Len(dev'.calls) : dev'.calls[i].ok)
           => /\ dev'.power
              /\ HasBri(dev') /\ Bri(dev') = BR_MAX
              /\ \A i \in 1 .. Len(dev'.calls) :
                    dev'.calls[i].op \in ColorWrites =>
                        LET a == dev'.calls[i].arg IN a[Len(a)] = 0
      ]_vars

\* ------------------------------------------------- claims, C31 onwards
\* C37: the status value ST of a Bulb is 0 whenever its power mirror is
\* off.  Light.dim sets ST to the percentage of the dimmed brightness
\* whether the Bulb is on or off.
C37_StatusZeroWhenOff ==
    (dev.topo = "bulb" /\ ~dev.power) => dev.drv["ST"] = 0

\* C39: after an EFFECT command of a tile chain with a valid type above 0
\* whose call returned, the local effect indicator is above 0, so that a
\* TILERT before the next poll stops the effect.  Tile.set_tile_effect
\* sets the driver GV9 and leaves self.effect, which recall_state tests,
\* to the next Tile.update.
C39_IndicatorTracksEffect ==
    [][\A effect_type \in TileEffectTypes, o \in Outcomes :
          (/\ dev.last = "idle"
           /\ dev' = set_tile_effect(Begin(dev, "EFFECT"), effect_type, o)
           /\ effect_type \in 1 .. 2 /\ o = "ok")
              => dev'.effect > 0
      ]_vars

\* C40: every zone index a strip's command uses is in range: the cursor
\* stays within 0 .. zone count, and a SET_HSBKDZ, whatever zone Z it
\* names, indexes the batch at a position within 0 .. zone count - 1.
\* setHSBKDZ takes Z - 1 (0 for Z = 0) as it comes.
C40_ZoneIndexInRange ==
    [][/\ dev'.current_zone >= 0 /\ dev'.current_zone <= dev'.num_zones
       /\ \A q \in ZoneQueries, o \in Outcomes :
             (/\ dev.last = "idle"
              /\ dev' = setHSBKDZ(Begin(dev, "SET_HSBKDZ"), q, o))
                 => /\ ZoneIx(q.z) >= 0
                    /\ ZoneIx(q.z) <= dev.num_zones - 1
                    /\ ZoneIx(q.z) + 1 <= Len(dev'.new_color)
      ]_vars

\* C34: no refresh of a sweep runs while a discovery thread is alive,
\* in any interleaving.  poll() looks at the thread once, at lines 98-103,
\* before its loop, and discover() takes no notice of a sweep.
C34_NoSweepDuringDiscovery ==
    [][(pollpc = "sweep" /\ pollVisited' # pollVisited) => AliveThreads = {}]_vars

\* the device entries of the registry
DeviceEntries == {a \in Addrs : KindOf(a) \in {"bulb", "multizone", "tile"} /\ getNode(a)}

\* C38: the count of discovered devices a run reports as GV0 (lines 169
\* and 235) is the number of device entries in the registry.  bulbs_found
\* is raised at lines 148 and 213, before the type of the entry is looked
\* at and before the node is made.
C38_CountMatchesRegistry ==
    [][\A t \in Threads :
          (threads[t].pc \in {"m_gv0", "fin"} /\ threads'[t].pc # threads[t].pc)
              => gv0' = Cardinality(DeviceEntries')]_vars

\* the brightness of the colour the handler's last colour write carried
ZoneWritten(s) ==
    LET n == Len(s.calls)
    IN IF n = 0 THEN -1
       ELSE IF s.calls[n].op = "set_color" THEN s.calls[n].arg[1][3]
       ELSE IF s.calls[n].op = "set_zone_color" THEN s.calls[n].arg[3][3]
       ELSE -1

\* the handler made one call, a colour write that returned
WroteOnce(s) ==
    /\ Len(s.calls) = 1
    /\ s.calls[1].op \in {"set_color", "set_zone_color"}
    /\ s.calls[1].ok

\* C35: on a powered-on strip whose cursor zone has brightness b, DIM
\* then BRT with no poll in between writes b again when b - BR_INCREMENT
\* >= BR_MIN, and DIM then DIM writes b - 2 * BR_INCREMENT when that is
\* at least BR_MIN.  MultiZone.dim and MultiZone.brighten write a copy of
\* the zone's colour and leave self.color as it was, so each step starts
\* from the brightness of the last read.
C35_ZoneStepsAddUp ==
    [][(/\ dev.last = "DIM" /\ dev'.last \in {"DIM", "BRT"}
        /\ Len(trail) >= 1 /\ trail[1].cmd = "DIM" /\ trail[1].power
        /\ dev.power
        /\ ZoneIx(dev.current_zone) + 1 <= Len(trail[1].color)
        /\ WroteOnce(dev) /\ WroteOnce(dev'))
           => LET b == trail[1].color[ZoneIx(dev.current_zone) + 1][3]
              IN /\ (dev'.last = "BRT" /\ b - BR_INCREMENT >= BR_MIN)
                       => ZoneWritten(dev') = b
                 /\ (dev'.last = "DIM" /\ b - 2 * BR_INCREMENT >= BR_MIN)
                       => ZoneWritten(dev') = b - 2 * BR_INCREMENT
      ]_vars

\* C36: while a strip has a pending batch no mirror change is lost.  A
\* poll leaves the mirror colour and the batch as they are; and when a
\* SET_HSBKDZ has opened the batch and a cursor command (a field setter,
\* FDSTOP with its re-read) has run after it, the APPLY that follows
\* leaves every zone the batch did not edit as that command left it.
\* MultiZone.apply assigns the whole batch, a copy of the mirror taken
\* when the batch was opened, to self.color.
C36_NoLostMirrorChange ==
    [][/\ (dev.pending /\ dev'.last = "update" /\ trail' # trail)
              => /\ dev'.color = dev.color
                 /\ dev'.new_color = dev.new_color
                 /\ dev'.pending
       /\ (/\ dev'.last = "APPLY" /\ trail' # trail
           /\ Len(trail) >= 2
           /\ trail[2].cmd = "SET_HSBKDZ" /\ ~trail[2].pending
           /\ trail[1].cmd \in FieldSetters \cup {"FDSTOP"}
           /\ dev.pending /\ dev.new_color # <<>>)
              => \A k \in 1 .. Len(dev.color) :
                    k # trail[2].pos => dev'.color[k] = dev.color[k]
      ]_vars

\* the handler's read of the core colour returned
ColorReadDone(s) ==
    \E i \in 1 .. Len(s.calls) :
        s.calls[i].op \in {"get_color", "get_color_zones"} /\ s.calls[i].ok

C32_DiscoveryEndsAndRestarts ==
    /\ \A t \in Threads : IsAlive(t) ~> ~IsAlive(t)
    /\ [][/\ \A t \in Threads :
                (threads[t].pc = "auto" /\ threads'[t] # threads[t])
                    => /\ ~threads[t].auto
                       /\ threads'[t].pc \in {"a_chk", "fin", "done"}
          /\ (pollpc = "idle" /\ pollpc' # "idle"
                  /\ ~(discovery_thread # 0 /\ IsAlive(discovery_thread)))
                 => (pollpc' = "sweep" /\ pollSnap' = order)
          /\ (/\ pollpc = "sweep" /\ pollpc' = "return" /\ ~pollResized'
              /\ AliveThreads = {} /\ \E t \in Threads : threads[t].st = "dead")
                 => pollVisited' = {pollSnap[k] : k \in 1 .. Len(pollSnap)}
          /\ \A c \in Callers :
                (/\ callpc[c] = "start" /\ callpc'[c] = "idle"
                 /\ \E t \in Threads : threads[t].st = "dead")
                    => \/ \E t \in Threads : (threads[t].st # "alive"
                                                /\ threads'[t].st = "alive")
                       \/ (discovery_thread # 0
                           /\ threads[discovery_thread].st \in {"alive", "dead"})
         ]_vars

\* what DIM makes of the color c
Dimmed(c) ==
    [c EXCEPT ![3] = IF c[3] - BR_INCREMENT < BR_MIN THEN BR_MIN
                     ELSE c[3] - BR_INCREMENT]

\* C31: when a DIM handler that ran beside poll refreshes has sent its
\* color and no refresh has come since, the mirror holds either a whole
\* reading of one of those refreshes or the whole result of dimming one
\* color the mirror held, and the color sent is the result of dimming one
\* such color.
C31_ColorReplacedWhole ==
    (dimpc.pc = "done" /\ dev.last = "DIM" /\ ~NoColor(dev)) =>
        LET held == {dimpc.snap} \cup dimpc.fresh
        IN /\ dev.color \in dimpc.fresh \cup {Dimmed(c) : c \in held}
           /\ dev.calls[1].arg[1] \in {Dimmed(c) : c \in held}

====
